---- MODULE Spec2Model ----
(***************************************************************************)
(* A model of the job filtering and deduplication stages of                *)
(* src/filters/job_filter.py.                                              *)
(*                                                                         *)
(* Text is a sequence of one-character strings, so that lowercasing,      *)
(* substring tests and the regular-expression substitutions of the code    *)
(* are computed character by character.  A record (a Python dict) is a     *)
(* function from the field names it holds to text.  Record objects live in *)
(* a heap; a job list is a sequence of references (heap indices), so that  *)
(* object identity, aliasing and in-place enrichment are visible.          *)
(***************************************************************************)
EXTENDS Integers, Sequences, FiniteSets, TLC

(***************************************************************************)
(* Characters and the str methods / regular expressions the code uses.     *)
(***************************************************************************)
UpperChars == <<"A","B","C","D","E","F","G","H","I","J","K","L","M",
                "N","O","P","Q","R","S","T","U","V","W","X","Y","Z">>
LowerChars == <<"a","b","c","d","e","f","g","h","i","j","k","l","m",
                "n","o","p","q","r","s","t","u","v","w","x","y","z">>
DigitChars == {"0","1","2","3","4","5","6","7","8","9"}
UpperSet == {UpperChars[i] : i \in 1..26}
LowerSet == {LowerChars[i] : i \in 1..26}
LowerOf == [c \in UpperSet |-> LowerChars[CHOOSE i \in 1..26 : UpperChars[i] = c]]

\* \s of the regular expressions, and the whitespace of str.strip / str.split
IsSpace(c) == c \in {" ", "\t"}
\* \w of the regular expressions: letters, digits and the underscore
IsWordChar(c) == c \in LowerSet \cup UpperSet \cup DigitChars \cup {"_"}

\* str.lower()
Lower(t) == [i \in 1..Len(t) |-> IF t[i] \in UpperSet THEN LowerOf[t[i]] ELSE t[i]]

RECURSIVE LStrip(_)
LStrip(t) == IF t /= <<>> /\ IsSpace(Head(t)) THEN LStrip(Tail(t)) ELSE t
RECURSIVE RStrip(_)
RStrip(t) == IF t /= <<>> /\ IsSpace(t[Len(t)]) THEN RStrip(SubSeq(t, 1, Len(t) - 1)) ELSE t
\* str.strip()
Strip(t) == RStrip(LStrip(t))

\* needle in hay (Python substring test; the empty needle is in every text)
Contains(hay, needle) ==
    \E i \in 0..(Len(hay) - Len(needle)) : SubSeq(hay, i + 1, i + Len(needle)) = needle

\* any(k in hay for k in keys), keys a sequence of texts
AnyIn(keys, hay) == \E i \in 1..Len(keys) : Contains(hay, keys[i])

\* str.replace(old, new) for a one-character old
RECURSIVE ReplaceChar(_, _, _)
ReplaceChar(t, old, new) ==
    IF t = <<>> THEN <<>>
    ELSE (IF Head(t) = old THEN new ELSE <<Head(t)>>) \o ReplaceChar(Tail(t), old, new)

\* re.sub(r'\s+', ' ', t)
RECURSIVE CollapseSpaces(_)
CollapseSpaces(t) ==
    IF t = <<>> THEN <<>>
    ELSE IF IsSpace(Head(t)) THEN <<" ">> \o CollapseSpaces(LStrip(t))
    ELSE <<Head(t)>> \o CollapseSpaces(Tail(t))

\* re.sub(r'[^\w\s]', '', t)
DeletePunct(t) == SelectSeq(t, LAMBDA c : IsWordChar(c) \/ IsSpace(c))

\* re.sub(r'\b(a1|a2|...)\b', repl, t), the alternatives alts beginning and ending
\* in a \w character: scanning from the left, the first alternative that starts at
\* a word boundary and ends at one is replaced; prevWord tells whether the
\* character before t is a \w character
RECURSIVE SubWords(_, _, _, _)
SubWords(t, prevWord, alts, repl) ==
    IF t = <<>> THEN <<>>
    ELSE LET hits == {k \in 1..Len(alts) :
                         /\ ~prevWord
                         /\ Len(alts[k]) <= Len(t)
                         /\ SubSeq(t, 1, Len(alts[k])) = alts[k]
                         /\ (Len(t) = Len(alts[k]) \/ ~IsWordChar(t[Len(alts[k]) + 1]))}
         IN IF hits = {}
            THEN <<Head(t)>> \o SubWords(Tail(t), IsWordChar(Head(t)), alts, repl)
            ELSE LET k == CHOOSE h \in hits : \A g \in hits : h <= g
                     n == Len(alts[k])
                 IN repl \o SubWords(SubSeq(t, n + 1, Len(t)), TRUE, alts, repl)

\* length of the maximal run of non-whitespace characters at the start of t
RECURSIVE TokenRun(_)
TokenRun(t) == IF t /= <<>> /\ ~IsSpace(Head(t)) THEN 1 + TokenRun(Tail(t)) ELSE 0

\* set(t.split())
RECURSIVE SplitSet(_)
SplitSet(t) ==
    IF t = <<>> THEN {}
    ELSE LET n == TokenRun(t) IN
         IF n = 0 THEN SplitSet(Tail(t))
         ELSE {SubSeq(t, 1, n)} \cup SplitSet(SubSeq(t, n + 1, Len(t)))

\* the first match of re.search/re.findall(r'\d+', t) as an integer; -1 if none
RECURSIVE DigitsValue(_, _)
DigitsValue(t, acc) ==
    IF t /= <<>> /\ Head(t) \in DigitChars
    THEN DigitsValue(Tail(t), 10 * acc + (CHOOSE d \in 0..9 : ToString(d) = Head(t)))
    ELSE acc
RECURSIVE FirstNumber(_)
FirstNumber(t) ==
    IF t = <<>> THEN -1
    ELSE IF Head(t) \in DigitChars THEN DigitsValue(t, 0)
    ELSE FirstNumber(Tail(t))

NA == <<"N","/","A">>
\* `not text or text == 'N/A'`
IsBlank(t) == t = <<>> \/ t = NA


(***************************************************************************)
(* Records.  job.get(f, '') reads an absent field as the empty text; a     *)
(* read that raises KeyError is the value KeyError, which no text equals.  *)
(***************************************************************************)
KeyError == <<"KeyError">>

\* job[f] in place of job.get(f, ''): an absent field raises
GetItem(job, f) == IF f \in DOMAIN job THEN job[f] ELSE KeyError

\* job.get(f, '')
Get(job, f) == IF f \in DOMAIN job THEN job[f] ELSE <<>>

\* an exception left the per-record code: one of the values it read is KeyError
Raises(vals) == KeyError \in vals

(***************************************************************************)
(* DuplicateRemover                                                        *)
(***************************************************************************)
company_suffixes == << <<"i","n","c">>, <<"c","o","r","p">>, <<"l","t","d">>, <<"l","l","c">>, <<"c","o">> >>

\* the normalization without the removal of the company suffixes
NormalizeKeepSuffixes(text) ==
    IF IsBlank(text) THEN <<>>
    ELSE DeletePunct(CollapseSpaces(Strip(Lower(text))))

_normalize_text(text) ==
    IF IsBlank(text) THEN <<>>
    ELSE SubWords(DeletePunct(CollapseSpaces(Strip(Lower(text)))), FALSE,
                  company_suffixes, <<>>)

\* the signature made of the fields as they are, not normalized
RawSignature(job) ==
    Get(job, "title") \o <<"|">> \o Get(job, "company") \o <<"|">> \o Get(job, "location")

\* the text that is hashed; md5 is taken to be collision-free, so two
\* signatures are equal iff these texts are
_create_job_signature(job) ==
    _normalize_text(Get(job, "title")) \o <<"|">>
        \o _normalize_text(Get(job, "company")) \o <<"|">>
        \o _normalize_text(Get(job, "location"))

\* the words of the title alone
GetTitleWords(job) == SplitSet(_normalize_text(Get(job, "title")))

get_words(job) ==
    SplitSet(_normalize_text(Get(job, "title")) \o <<" ">>
                 \o _normalize_text(Get(job, "company")))

\* the shared words as a share of the first record's words
JaccardOfFirst(words1, words2) ==
    IF words1 = {} /\ words2 = {} THEN <<1, 1>>
    ELSE IF words1 = {} \/ words2 = {} THEN <<0, 1>>
    ELSE <<Cardinality(words1 \cap words2), Cardinality(words1)>>

\* the similarity as the fraction <<numerator, denominator>>; 1.0 is <<1, 1>>
\* and 0.0 is <<0, 1>>
Jaccard(words1, words2) ==
    IF words1 = {} /\ words2 = {} THEN <<1, 1>>
    ELSE IF words1 = {} \/ words2 = {} THEN <<0, 1>>
    ELSE <<Cardinality(words1 \cap words2), Cardinality(words1 \cup words2)>>

_calculate_similarity(job1, job2) == Jaccard(get_words(job1), get_words(job2))

\* similarity > threshold
AtLeastStrict(sim, thr) == sim[1] * thr[2] > thr[1] * sim[2]

\* similarity >= threshold, both fractions with positive denominators.  The
\* float quotient of two small integers equals the float of a short decimal
\* only if the fractions are equal, so the comparison of fractions is exact.
AtLeast(sim, thr) == sim[1] * thr[2] >= thr[1] * sim[2]

\* an inner loop that looks at the record kept last only
IsDuplicateOfLastKept(threshold, job, heap, unique_jobs) ==
    /\ unique_jobs /= <<>>
    /\ AtLeast(_calculate_similarity(job, heap[unique_jobs[Len(unique_jobs)]]), threshold)

\* the inner loop over unique_jobs
IsDuplicateOfKept(threshold, job, heap, unique_jobs) ==
    \E k \in 1..Len(unique_jobs) :
        AtLeast(_calculate_similarity(job, heap[unique_jobs[k]]), threshold)

\* the body of the loop of DuplicateRemover.filter for the record at ref
\* last-seen-wins: a duplicate takes the place of the record kept last
DuplicateKeepLast(cfg, ref, acc, job, signature) ==
    IF Raises({Get(job, "title"), Get(job, "company"), Get(job, "location")})
    THEN [acc EXCEPT !.raised = TRUE]
    ELSE IF signature \notin acc.seen
              /\ ~IsDuplicateOfKept(cfg.similarity_threshold, job, acc.heap, acc.out)
         THEN [acc EXCEPT !.examined = @ + 1, !.out = Append(@, ref),
                          !.seen = @ \cup {signature}]
         ELSE [acc EXCEPT !.examined = @ + 1,
                          !.out = Append(SubSeq(@, 1, Len(@) - 1), ref)]

DuplicateKeep(cfg, ref, acc, job, signature) ==
    IF Raises({Get(job, "title"), Get(job, "company"), Get(job, "location")})
    THEN [acc EXCEPT !.raised = TRUE]
    ELSE IF signature \notin acc.seen
              /\ ~IsDuplicateOfKept(cfg.similarity_threshold, job, acc.heap, acc.out)
         THEN [acc EXCEPT !.examined = @ + 1, !.out = Append(@, ref),
                          !.seen = @ \cup {signature}]
         ELSE [acc EXCEPT !.examined = @ + 1]

DuplicateStep(cfg, ref, acc) ==
    DuplicateKeep(cfg, ref, acc, acc.heap[ref], _create_job_signature(acc.heap[ref]))

(***************************************************************************)
(* ExperienceFilter                                                        *)
(***************************************************************************)
entry_keywords ==
    << <<"j","u","n","i","o","r">>, <<"t","r","a","i","n","e","e">>, <<"i","n","t","e","r","n">>, <<"e","n","t","r","y">>, <<"g","r","a","d","u","a","t","e">>, <<"f","r","e","s","h","e","r">>,
       <<"a","s","s","o","c","i","a","t","e">>, <<"b","e","g","i","n","n","e","r">>, <<"a","p","p","r","e","n","t","i","c","e">>, <<"0","-","1"," ","y","e","a","r">>, <<"0","-","2"," ","y","e","a","r">>,
       <<"n","e","w"," ","g","r","a","d">>, <<"r","e","c","e","n","t"," ","g","r","a","d","u","a","t","e">>, <<"j","r",".">>, <<"j","r"," ">> >>
senior_keywords ==
    << <<"s","e","n","i","o","r">>, <<"s","r",".">>, <<"s","r"," ">>, <<"l","e","a","d">>, <<"p","r","i","n","c","i","p","a","l">>, <<"a","r","c","h","i","t","e","c","t">>, <<"m","a","n","a","g","e","r">>,
       <<"h","e","a","d">>, <<"d","i","r","e","c","t","o","r">>, <<"c","h","i","e","f">>, <<"e","x","p","e","r","t">>, <<"5","+"," ","y","e","a","r">>, <<"7","+"," ","y","e","a","r">>,
       <<"t","e","a","m"," ","l","e","a","d">>, <<"t","e","c","h"," ","l","e","a","d">>, <<"t","e","c","h","n","i","c","a","l"," ","l","e","a","d">>, <<"s","t","a","f","f">>, <<"p","r","i","n","c","i","p","a","l">> >>
mid_keywords ==
    << <<"m","i","d">>, <<"i","n","t","e","r","m","e","d","i","a","t","e">>, <<"r","e","g","u","l","a","r">>, <<"2","-","5"," ","y","e","a","r">>, <<"3","-","6"," ","y","e","a","r">>,
       <<"e","x","p","e","r","i","e","n","c","e","d">>, <<"s","p","e","c","i","a","l","i","s","t">>, <<"d","e","v","e","l","o","p","e","r"," ","i","i">>, <<"e","n","g","i","n","e","e","r"," ","i","i">> >>

\* the classifier with the senior keywords tried before the entry keywords
DetectSeniorFirst(job_title, company) ==
    IF job_title = <<>> THEN <<"m","i","d">>
    ELSE IF AnyIn(senior_keywords, Lower(job_title)) THEN <<"s","e","n","i","o","r">>
    ELSE IF AnyIn(entry_keywords, Lower(job_title)) THEN <<"e","n","t","r","y">>
    ELSE <<"m","i","d">>

_detect_experience_level(job_title, company) ==
    IF job_title = <<>> THEN <<"m","i","d">>
    ELSE LET title_lower == Lower(job_title)
         IN IF AnyIn(entry_keywords, title_lower) THEN <<"e","n","t","r","y">>
            ELSE IF AnyIn(senior_keywords, title_lower) THEN <<"s","e","n","i","o","r">>
            ELSE IF AnyIn(mid_keywords, title_lower) THEN <<"m","i","d">>
            ELSE <<"m","i","d">>

\* x in list, for a list of texts
InList(x, list) == \E i \in 1..Len(list) : list[i] = x

\* the record with an experience_level computed anew from its title
EnrichedAnew(job) ==
    [f \in DOMAIN job \cup {"experience_level"} |->
        IF f = "experience_level"
        THEN _detect_experience_level(Get(job, "title"), Get(job, "company"))
        ELSE job[f]]

\* the body of the loop of ExperienceFilter.filter: the record is enriched in
\* place when it has no experience_level
\* the record with the experience_level the filter gives it when it has none
Enriched(job) ==
    IF "experience_level" \notin DOMAIN job
    THEN ("experience_level" :>
              _detect_experience_level(Get(job, "title"), Get(job, "company"))) @@ job
    ELSE job

ExperienceKeep(cfg, ref, acc, job2) ==
    [acc EXCEPT !.examined = @ + 1,
                !.heap = [@ EXCEPT ![ref] = job2],
                !.out = IF InList(Lower(job2["experience_level"]), cfg.allowed_levels)
                        THEN Append(@, ref) ELSE @]

ExperienceStep(cfg, ref, acc) ==
    IF /\ "experience_level" \notin DOMAIN acc.heap[ref]
       /\ Raises({Get(acc.heap[ref], "title"), Get(acc.heap[ref], "company")})
    THEN [acc EXCEPT !.raised = TRUE]
    ELSE ExperienceKeep(cfg, ref, acc, Enriched(acc.heap[ref]))

(***************************************************************************)
(* CompanyFilter, KeywordFilter                                            *)
(***************************************************************************)
\* the verdict of a per-record test: the record is appended, skipped, or the
\* test raised
\* filtered_jobs.insert(0, job) in place of append
VerdictPrepend(acc, ref, reads, keep) ==
    IF Raises(reads) THEN [acc EXCEPT !.raised = TRUE]
    ELSE [acc EXCEPT !.examined = @ + 1, !.out = IF keep THEN <<ref>> \o @ ELSE @]

Verdict(acc, ref, reads, keep) ==
    IF Raises(reads) THEN [acc EXCEPT !.raised = TRUE]
    ELSE [acc EXCEPT !.examined = @ + 1, !.out = IF keep THEN Append(@, ref) ELSE @]

\* the include list tried first: a company it names is kept, excluded or not
CompanyKeepsIncluded(cfg, company) ==
    \/ cfg.include_companies /= <<>>
           /\ AnyIn(cfg.include_companies, Strip(Lower(company)))
    \/ /\ cfg.include_companies = <<>>
       /\ ~AnyIn(cfg.exclude_companies, Strip(Lower(company)))

CompanyKeeps(cfg, company) ==
    LET company_name == Strip(Lower(company))
    IN /\ ~(cfg.exclude_companies /= <<>> /\ AnyIn(cfg.exclude_companies, company_name))
       /\ ~(cfg.include_companies /= <<>> /\ ~AnyIn(cfg.include_companies, company_name))

CompanyStep(cfg, ref, acc) ==
    LET company == Get(acc.heap[ref], "company")
    IN Verdict(acc, ref, {company}, CompanyKeeps(cfg, company))

KeywordKeeps(cfg, title, description) ==
    LET content == Lower(title) \o <<" ">> \o Lower(description)
    IN /\ ~(cfg.required_keywords /= <<>> /\ ~AnyIn(cfg.required_keywords, content))
       /\ ~(cfg.excluded_keywords /= <<>> /\ AnyIn(cfg.excluded_keywords, content))

KeywordStep(cfg, ref, acc) ==
    LET title == Get(acc.heap[ref], "title")
        description == Get(acc.heap[ref], "description")
    IN Verdict(acc, ref, {title, description}, KeywordKeeps(cfg, title, description))

(***************************************************************************)
(* SalaryFilter.  An Optional[int] that is None is 0 here: the code tests  *)
(* min_salary and max_salary for truth before it compares, and None and 0  *)
(* are both false.  An extraction that returns None is -1.                 *)
(***************************************************************************)
\* the extraction without the replacement of 'k' and 'K'
ExtractWithoutThousands(salary_str) ==
    IF IsBlank(salary_str) THEN -1
    ELSE FirstNumber(ReplaceChar(ReplaceChar(salary_str, "$", <<>>), ",", <<>>))

_extract_salary_numbers(salary_str) ==
    IF IsBlank(salary_str) THEN -1
    ELSE FirstNumber(ReplaceChar(ReplaceChar(ReplaceChar(ReplaceChar(
             salary_str, "$", <<>>), ",", <<>>), "k", <<"0","0","0">>), "K", <<"0","0","0">>))

\* the range test without the `salary_num is None` case
InSalaryRangeStrict(cfg, salary_num) ==
    /\ ~(cfg.min_salary /= 0 /\ salary_num < cfg.min_salary)
    /\ ~(cfg.max_salary /= 0 /\ salary_num > cfg.max_salary)

InSalaryRange(cfg, salary_num) ==
    \/ salary_num = -1
    \/ /\ ~(cfg.min_salary /= 0 /\ salary_num < cfg.min_salary)
       /\ ~(cfg.max_salary /= 0 /\ salary_num > cfg.max_salary)

SalaryKeeps(cfg, salary_str) == InSalaryRange(cfg, _extract_salary_numbers(salary_str))

SalaryStep(cfg, ref, acc) ==
    LET salary_str == Get(acc.heap[ref], "salary")
    IN Verdict(acc, ref, {salary_str}, SalaryKeeps(cfg, salary_str))

(***************************************************************************)
(* JobTypeFilter                                                           *)
(***************************************************************************)
\* a full_time_only test that wants an explicit full-time signal
JobTypeKeepsExplicit(cfg, location0, job_type0, title0) ==
    /\ ~(cfg.remote_only /\ ~Contains(Lower(location0), <<"r","e","m","o","t","e">>)
                         /\ ~Contains(Lower(job_type0), <<"r","e","m","o","t","e">>))
    /\ ~(/\ cfg.full_time_only
         /\ ~Contains(Lower(job_type0), <<"f","u","l","l">>)
         /\ ~Contains(Lower(title0), <<"f","u","l","l","-","t","i","m","e">>))

JobTypeKeeps(cfg, location0, job_type0, title0) ==
    LET location == Lower(location0)
        job_type == Lower(job_type0)
        title == Lower(title0)
    IN /\ ~(cfg.remote_only /\ ~Contains(location, <<"r","e","m","o","t","e">>)
                            /\ ~Contains(job_type, <<"r","e","m","o","t","e">>))
       /\ ~(/\ cfg.full_time_only
            /\ ~Contains(job_type, <<"f","u","l","l">>) /\ ~Contains(title, <<"f","u","l","l","-","t","i","m","e">>)
            /\ job_type /= <<>> /\ Contains(job_type, <<"p","a","r","t">>))

JobTypeStep(cfg, ref, acc) ==
    LET location == Get(acc.heap[ref], "location")
        job_type == Get(acc.heap[ref], "job_type")
        title == Get(acc.heap[ref], "title")
    IN Verdict(acc, ref, {location, job_type, title},
               JobTypeKeeps(cfg, location, job_type, title))

(***************************************************************************)
(* DateFilter.  A parsed posting date is its age in hours at the moment    *)
(* _parse_posting_date reads the clock; None is -1.  _is_within_time_filter*)
(* reads the clock again: tick is the time that passed between the two     *)
(* readings, in clock ticks (0 when the clock did not advance); the clock  *)
(* of the model ticks once a second.                                       *)
(***************************************************************************)
HoursPerDay == 24
HoursPerWeek == 7 * HoursPerDay
HoursPerMonth == 30 * HoursPerDay
TicksPerHour == 60 * 60

\* dateutil.parser.parse and the strptime formats, for a text that holds no
\* calendar date: both raise and the result is None
_parse_absolute_date(date_str) == -1

\* the branch `if 'ago' in date_str`, n the first run of digits (-1: none)
RelativeAge(s, n) ==
    IF ~Contains(s, <<"a","g","o">>) \/ n = -1 THEN -1
    ELSE IF Contains(s, <<"h","o","u","r">>) THEN n
    ELSE IF Contains(s, <<"d","a","y">>) THEN n * HoursPerDay
    ELSE IF Contains(s, <<"w","e","e","k">>) THEN n * HoursPerWeek
    ELSE IF Contains(s, <<"m","o","n","t","h">>) THEN n * HoursPerMonth
    ELSE -1

\* the rest of _parse_posting_date, relative the result of the 'ago' branch
AgeOf(s, relative) ==
    IF relative /= -1 THEN relative
    ELSE IF Contains(s, <<"t","o","d","a","y">>) THEN 0
    ELSE IF Contains(s, <<"y","e","s","t","e","r","d","a","y">>) THEN HoursPerDay
    ELSE _parse_absolute_date(s)

ParseCleaned(s) == AgeOf(s, RelativeAge(s, FirstNumber(s)))

_parse_posting_date(date_str) ==
    IF IsBlank(date_str) THEN -1 ELSE ParseCleaned(Lower(Strip(date_str)))

_is_within_time_filter(cfg, posted_age, tick) ==
    posted_age * TicksPerHour + tick <= cfg.max_age_hours * TicksPerHour

WithinOrUnknown(cfg, posted_date, tick) ==
    posted_date = -1 \/ _is_within_time_filter(cfg, posted_date, tick)

DateKeeps(cfg, date_str, tick) ==
    WithinOrUnknown(cfg, _parse_posting_date(date_str), tick)

DateStep(cfg, ref, acc, tick) ==
    LET date_str == Get(acc.heap[ref], "posted_date")
    IN Verdict(acc, ref, {date_str}, DateKeeps(cfg, date_str, tick))

(***************************************************************************)
(* LocationFilter                                                          *)
(***************************************************************************)
remote_keywords ==
    << <<"r","e","m","o","t","e">>, <<"w","o","r","k"," ","f","r","o","m"," ","h","o","m","e">>, <<"w","f","h">>, <<"t","e","l","e","c","o","m","m","u","t","e">>,
       <<"d","i","s","t","r","i","b","u","t","e","d">>, <<"a","n","y","w","h","e","r","e">>, <<"v","i","r","t","u","a","l">>, <<"h","o","m","e","-","b","a","s","e","d">> >>

\* re.sub(r'[,\-\(\)]', ' ', t)
SeparatorsToSpaces(t) ==
    [i \in 1..Len(t) |-> IF t[i] \in {",", "-", "(", ")"} THEN " " ELSE t[i]]

\* the five re.sub calls on whole words, in the order of the code
LocationSubs ==
    << [alts |-> << <<"u","s","a">>, <<"u","s">>, <<"u","n","i","t","e","d"," ","s","t","a","t","e","s">> >>, repl |-> <<>>],
       [alts |-> << <<"c","a">>, <<"c","a","l","i","f","o","r","n","i","a">> >>, repl |-> <<"c","a","l","i","f","o","r","n","i","a">>],
       [alts |-> << <<"n","y">>, <<"n","e","w"," ","y","o","r","k">> >>, repl |-> <<"n","e","w"," ","y","o","r","k">>],
       [alts |-> << <<"f","l">>, <<"f","l","o","r","i","d","a">> >>, repl |-> <<"f","l","o","r","i","d","a">>],
       [alts |-> << <<"t","x">>, <<"t","e","x","a","s">> >>, repl |-> <<"t","e","x","a","s">>] >>

RECURSIVE ApplySubs(_, _, _)
ApplySubs(t, subs, i) ==
    IF i > Len(subs) THEN t
    ELSE ApplySubs(SubWords(t, FALSE, subs[i].alts, subs[i].repl), subs, i + 1)

_normalize_location(location) ==
    IF IsBlank(location) THEN <<>>
    ELSE Strip(CollapseSpaces(SeparatorsToSpaces(
             ApplySubs(Strip(Lower(location)), LocationSubs, 1))))

_is_remote_job(location) ==
    location /= <<>> /\ AnyIn(remote_keywords, Lower(location))

NormalizedMatch(cfg, job_loc, pref_loc) ==
    IF cfg.exact_match THEN job_loc = pref_loc
    ELSE Contains(job_loc, pref_loc) \/ Contains(pref_loc, job_loc)

_location_matches(cfg, job_location, preferred_location) ==
    /\ job_location /= <<>>
    /\ preferred_location /= <<>>
    /\ NormalizedMatch(cfg, _normalize_location(job_location),
                       _normalize_location(preferred_location))

LocationKeeps(cfg, location) ==
    \/ _is_remote_job(location) /\ cfg.allow_remote
    \/ /\ ~\E i \in 1..Len(cfg.excluded_locations) :
              _location_matches(cfg, location, cfg.excluded_locations[i])
       /\ \/ cfg.preferred_locations = <<>>
          \/ \E i \in 1..Len(cfg.preferred_locations) :
                 _location_matches(cfg, location, cfg.preferred_locations[i])

LocationStep(cfg, ref, acc) ==
    LET location == Get(acc.heap[ref], "location")
    IN Verdict(acc, ref, {location}, LocationKeeps(cfg, location))

(***************************************************************************)
(* Stage instances: [kind, cfg, stats].  The constructors normalise their  *)
(* arguments as the __init__ methods do.                                   *)
(***************************************************************************)
LowerAll(list) == [i \in 1..Len(list) |-> Lower(list[i])]
LowerStripAll(list) == [i \in 1..Len(list) |-> Strip(Lower(list[i]))]

FilterStats == [k \in {"original_count", "filtered_out", "final_count"} |-> 0]

NewExperienceFilter(allowed_levels) ==
    [kind |-> "ExperienceFilter",
     cfg |-> [allowed_levels |-> LowerAll(allowed_levels)],
     stats |-> FilterStats]

NewCompanyFilter(include_companies, exclude_companies) ==
    [kind |-> "CompanyFilter",
     cfg |-> [include_companies |-> LowerStripAll(include_companies),
              exclude_companies |-> LowerStripAll(exclude_companies)],
     stats |-> FilterStats]

NewKeywordFilter(required_keywords, excluded_keywords) ==
    [kind |-> "KeywordFilter",
     cfg |-> [required_keywords |-> LowerStripAll(required_keywords),
              excluded_keywords |-> LowerStripAll(excluded_keywords)],
     stats |-> FilterStats]

NewSalaryFilter(min_salary, max_salary) ==
    [kind |-> "SalaryFilter",
     cfg |-> [min_salary |-> min_salary, max_salary |-> max_salary],
     stats |-> FilterStats]

NewJobTypeFilter(remote_only, full_time_only) ==
    [kind |-> "JobTypeFilter",
     cfg |-> [remote_only |-> remote_only, full_time_only |-> full_time_only],
     stats |-> FilterStats]

DefaultMaxAgeHours == 72

NewDateFilter(max_age_hours) ==
    [kind |-> "DateFilter",
     cfg |-> [max_age_hours |-> max_age_hours],
     stats |-> FilterStats]

NewLocationFilter(preferred_locations, excluded_locations, allow_remote, exact_match) ==
    [kind |-> "LocationFilter",
     cfg |-> [preferred_locations |-> LowerStripAll(preferred_locations),
              excluded_locations |-> LowerStripAll(excluded_locations),
              allow_remote |-> allow_remote, exact_match |-> exact_match],
     stats |-> FilterStats]

\* a constructor that takes every pair of records for duplicates
NewDuplicateRemoverZero(similarity_threshold) ==
    [kind |-> "DuplicateRemover",
     cfg |-> [similarity_threshold |-> <<0, 1>>],
     stats |-> [k \in {"original_count", "duplicates_removed", "final_count"} |-> 0]]

NewDuplicateRemover(similarity_threshold) ==
    [kind |-> "DuplicateRemover",
     cfg |-> [similarity_threshold |-> similarity_threshold],
     stats |-> [k \in {"original_count", "duplicates_removed", "final_count"} |-> 0]]

NewMainJobFilter(filter_config) ==
    [kind |-> "MainJobFilter",
     cfg |-> filter_config,
     stats |-> [k \in {"original_count", "after_experience_filter",
                       "after_company_filter", "after_location_filter",
                       "after_keyword_filter", "after_date_filter",
                       "after_salary_filter", "final_count"} |-> 0]]

(***************************************************************************)
(* filter() of the single-criterion stages and of DuplicateRemover.  The   *)
(* result of a call is [out, heap, raised, examined, stats]: the returned  *)
(* list, the heap after the in-place enrichments, whether an exception     *)
(* left the call, how many records the loop examined, and _stats.          *)
(***************************************************************************)
\* the early returns without the one of ExperienceFilter
ReturnsInputLate(inst, jobs) ==
    CASE inst.kind = "ExperienceFilter" -> FALSE
      [] inst.kind = "CompanyFilter" ->
            inst.cfg.include_companies = <<>> /\ inst.cfg.exclude_companies = <<>>
      [] inst.kind = "KeywordFilter" ->
            inst.cfg.required_keywords = <<>> /\ inst.cfg.excluded_keywords = <<>>
      [] inst.kind = "SalaryFilter" ->
            inst.cfg.min_salary = 0 /\ inst.cfg.max_salary = 0
      [] inst.kind = "JobTypeFilter" ->
            ~inst.cfg.remote_only /\ ~inst.cfg.full_time_only
      [] inst.kind = "DateFilter" -> FALSE
      [] inst.kind = "LocationFilter" ->
            inst.cfg.preferred_locations = <<>> /\ inst.cfg.excluded_locations = <<>>
      [] inst.kind = "DuplicateRemover" -> jobs = <<>>

\* the early `return jobs` of each filter method
ReturnsInput(inst, jobs) ==
    CASE inst.kind = "ExperienceFilter" -> inst.cfg.allowed_levels = <<>>
      [] inst.kind = "CompanyFilter" ->
            inst.cfg.include_companies = <<>> /\ inst.cfg.exclude_companies = <<>>
      [] inst.kind = "KeywordFilter" ->
            inst.cfg.required_keywords = <<>> /\ inst.cfg.excluded_keywords = <<>>
      [] inst.kind = "SalaryFilter" ->
            inst.cfg.min_salary = 0 /\ inst.cfg.max_salary = 0
      [] inst.kind = "JobTypeFilter" ->
            ~inst.cfg.remote_only /\ ~inst.cfg.full_time_only
      [] inst.kind = "DateFilter" -> FALSE
      [] inst.kind = "LocationFilter" ->
            inst.cfg.preferred_locations = <<>> /\ inst.cfg.excluded_locations = <<>>
      [] inst.kind = "DuplicateRemover" -> jobs = <<>>

\* the loop body of each filter method
Step(inst, ref, acc, tick) ==
    CASE inst.kind = "ExperienceFilter" -> ExperienceStep(inst.cfg, ref, acc)
      [] inst.kind = "CompanyFilter" -> CompanyStep(inst.cfg, ref, acc)
      [] inst.kind = "KeywordFilter" -> KeywordStep(inst.cfg, ref, acc)
      [] inst.kind = "SalaryFilter" -> SalaryStep(inst.cfg, ref, acc)
      [] inst.kind = "JobTypeFilter" -> JobTypeStep(inst.cfg, ref, acc)
      [] inst.kind = "DateFilter" -> DateStep(inst.cfg, ref, acc, tick)
      [] inst.kind = "LocationFilter" -> LocationStep(inst.cfg, ref, acc)
      [] inst.kind = "DuplicateRemover" -> DuplicateStep(inst.cfg, ref, acc)

\* `for job in jobs:`; an exception ends the loop.  ticks[ref] is the clock
\* advance met while the record at ref is examined
RECURSIVE Loop(_, _, _, _, _)
Loop(inst, jobs, i, acc, ticks) ==
    IF i > Len(jobs) \/ acc.raised THEN acc
    ELSE Loop(inst, jobs, i + 1, Step(inst, jobs[i], acc, ticks[jobs[i]]), ticks)

\* the name of the counter of removed records in _stats
RemovedKey(inst) ==
    IF inst.kind = "DuplicateRemover" THEN "duplicates_removed" ELSE "filtered_out"

\* the end of a filter method whose loop ended in acc: the two counters are
\* written and the new list returned, unless an exception left the loop
AfterLoop(inst, jobs, stats1, acc) ==
    IF acc.raised
    THEN [out |-> <<>>, heap |-> acc.heap, raised |-> TRUE,
          examined |-> acc.examined, stats |-> stats1]
    ELSE [out |-> acc.out, heap |-> acc.heap, raised |-> FALSE,
          examined |-> acc.examined,
          stats |-> [stats1 EXCEPT ![RemovedKey(inst)] = Len(jobs) - Len(acc.out),
                                   !["final_count"] = Len(acc.out)]]

StageFilter(inst, heap, jobs, ticks) ==
    IF ReturnsInput(inst, jobs)
    THEN [out |-> jobs, heap |-> heap, raised |-> FALSE, examined |-> 0,
          stats |-> [inst.stats EXCEPT !["original_count"] = Len(jobs)]]
    ELSE AfterLoop(inst, jobs, [inst.stats EXCEPT !["original_count"] = Len(jobs)],
                   Loop(inst, jobs, 1,
                        [heap |-> heap, out |-> <<>>, seen |-> {},
                         raised |-> FALSE, examined |-> 0], ticks))

(***************************************************************************)
(* MainJobFilter.  filter_config is a dict: a record whose fields are the  *)
(* options that are present.  config.get(key) of an absent option is None, *)
(* which is false; a present option is true unless it is the empty list, 0 *)
(* or False.                                                               *)
(***************************************************************************)
TrueList(config, key) == key \in DOMAIN config /\ config[key] /= <<>>
\* `config.get(key) is not None` in place of the truth test
IntPresent(config, key) == key \in DOMAIN config
TrueInt(config, key) == key \in DOMAIN config /\ config[key] /= 0
TrueBool(config, key) == key \in DOMAIN config /\ config[key]

\* config.get(key, default); for the Optional arguments None is <<>> or 0
ConfigGet(config, key, default) == IF key \in DOMAIN config THEN config[key] ELSE default

\* the six `if <options>: ...` blocks of MainJobFilter.filter, in the order of
\* the code: whether the block runs, the stage it constructs, and the counter
\* it records (the job-type block records none)
MainBlocks(config) ==
    << [enabled |-> TrueList(config, "experience_levels"),
        stage |-> NewExperienceFilter(ConfigGet(config, "experience_levels", <<>>)),
        key |-> "after_experience_filter"],
       [enabled |-> TrueList(config, "include_companies")
                        \/ TrueList(config, "exclude_companies"),
        stage |-> NewCompanyFilter(ConfigGet(config, "include_companies", <<>>),
                                   ConfigGet(config, "exclude_companies", <<>>)),
        key |-> "after_company_filter"],
       [enabled |-> TrueList(config, "keywords") \/ TrueList(config, "exclude_keywords"),
        stage |-> NewKeywordFilter(ConfigGet(config, "keywords", <<>>),
                                   ConfigGet(config, "exclude_keywords", <<>>)),
        key |-> "after_keyword_filter"],
       [enabled |-> TrueInt(config, "max_age_days"),
        stage |-> NewDateFilter(ConfigGet(config, "max_age_days", 0) * 24),
        key |-> "after_date_filter"],
       [enabled |-> TrueInt(config, "min_salary") \/ TrueInt(config, "max_salary"),
        stage |-> NewSalaryFilter(ConfigGet(config, "min_salary", 0),
                                  ConfigGet(config, "max_salary", 0)),
        key |-> "after_salary_filter"],
       [enabled |-> TrueBool(config, "remote_only") \/ TrueBool(config, "full_time_only"),
        stage |-> NewJobTypeFilter(ConfigGet(config, "remote_only", FALSE),
                                   ConfigGet(config, "full_time_only", FALSE)),
        key |-> ""] >>

\* the state of MainJobFilter.filter after a block whose stage returned r
AfterBlock(st, key, r) ==
    [out |-> r.out, heap |-> r.heap, raised |-> r.raised,
     examined |-> st.examined + r.examined,
     stats |-> IF r.raised \/ key = "" THEN st.stats
               ELSE [st.stats EXCEPT ![key] = Len(r.out)]]

RECURSIVE MainLoop(_, _, _, _)
MainLoop(blocks, i, st, ticks) ==
    IF i > Len(blocks) \/ st.raised THEN st
    ELSE MainLoop(blocks, i + 1,
                  IF blocks[i].enabled
                  THEN AfterBlock(st, blocks[i].key,
                                  StageFilter(blocks[i].stage, st.heap, st.out, ticks))
                  ELSE st,
                  ticks)

\* the end of MainJobFilter.filter
MainReturn(st) ==
    IF st.raised THEN st
    ELSE [st EXCEPT !.stats = [@ EXCEPT !["final_count"] = Len(st.out)]]

MainFilter(inst, heap, jobs, ticks) ==
    MainReturn(MainLoop(MainBlocks(inst.cfg), 1,
                        [out |-> jobs, heap |-> heap, raised |-> FALSE, examined |-> 0,
                         stats |-> [inst.stats EXCEPT !["original_count"] = Len(jobs)]],
                        ticks))

\* filter_instance.filter(jobs), by the class of the instance
Filter(inst, heap, jobs, ticks) ==
    IF inst.kind = "MainJobFilter" THEN MainFilter(inst, heap, jobs, ticks)
    ELSE StageFilter(inst, heap, jobs, ticks)

\* filter_jobs_by_criteria(jobs, criteria)
filter_jobs_by_criteria(heap, jobs, criteria, ticks) ==
    Filter(NewMainJobFilter(criteria), heap, jobs, ticks)

DefaultThreshold == <<9, 10>>

\* deduplicate_jobs(jobs, similarity_threshold)
deduplicate_jobs(heap, jobs, similarity_threshold, ticks) ==
    Filter(NewDuplicateRemover(similarity_threshold), heap, jobs, ticks)

(***************************************************************************)
(* FilterPipeline.apply_filters: the stages in the order of the add_filter *)
(* calls.  The result also holds the stage instances with the _stats the   *)
(* run left in them, and the local total_stats, keyed by class name.       *)
(***************************************************************************)
\* a loop in which only the first stage narrows the list
AfterStageKeepFirst(filters, i, st, r) ==
    [out |-> IF i = 1 THEN r.out ELSE st.out, heap |-> r.heap, raised |-> r.raised,
     filters |-> [st.filters EXCEPT ![i] = [@ EXCEPT !.stats = r.stats]],
     total_stats |-> st.total_stats]

\* the state of apply_filters after stage i returned r
AfterStage(filters, i, st, r) ==
    [out |-> r.out, heap |-> r.heap, raised |-> r.raised,
     filters |-> [st.filters EXCEPT ![i] = [@ EXCEPT !.stats = r.stats]],
     total_stats |-> IF r.raised THEN st.total_stats
                     ELSE (filters[i].kind :>
                               [before |-> Len(st.out), after |-> Len(r.out),
                                filtered_out |-> Len(st.out) - Len(r.out)])
                          @@ st.total_stats]

\* the loop going through the stages from the last to the first
RECURSIVE PipelineLoopReversed(_, _, _, _)
PipelineLoopReversed(filters, i, st, ticks) ==
    IF i > Len(filters) \/ st.raised THEN st
    ELSE PipelineLoopReversed(filters, i + 1,
                              AfterStage(filters, Len(filters) + 1 - i, st,
                                         Filter(filters[Len(filters) + 1 - i],
                                                st.heap, st.out, ticks)),
                              ticks)

RECURSIVE PipelineLoop(_, _, _, _)
PipelineLoop(filters, i, st, ticks) ==
    IF i > Len(filters) \/ st.raised THEN st
    ELSE PipelineLoop(filters, i + 1,
                      AfterStage(filters, i, st,
                                 Filter(filters[i], st.heap, st.out, ticks)),
                      ticks)

apply_filters(filters, heap, jobs, ticks) ==
    PipelineLoop(filters, 1,
                 [out |-> jobs, heap |-> heap, raised |-> FALSE,
                  filters |-> filters, total_stats |-> <<>>], ticks)

\* FilterPipeline.get_pipeline_stats: a dict keyed by class name, so that of
\* the stages of one class the last one is the one reported
get_pipeline_stats(filters) ==
    [name \in {filters[i].kind : i \in 1..Len(filters)} |->
        filters[CHOOSE i \in 1..Len(filters) :
                    /\ filters[i].kind = name
                    /\ \A j \in (i + 1)..Len(filters) : filters[j].kind /= name].stats]

(***************************************************************************)
(* The inputs of the model: the records a job list is built from and the   *)
(* configurations a stage is constructed with.  A stage reads only the     *)
(* fields of its criterion, so the records offered to a stage vary those.  *)
(***************************************************************************)
MaxJobs == 2
MaxDuplicateJobs == 3
MaxCalls == 2

EmptyRecord == [f \in {} |-> <<>>]
Rec(f, v) == f :> v

ExperienceRecords ==
    { EmptyRecord,
      Rec("title", <<"J","r"," ","D","e","v">>),
      Rec("title", <<"J","u","n","i","o","r"," ","S","o","f","t","w","a","r","e"," ","E","n","g","i","n","e","e","r">>),
      Rec("title", <<"S","e","n","i","o","r"," ","B","a","c","k","e","n","d"," ","L","e","a","d">>),
      Rec("title", <<"S","o","f","t","w","a","r","e"," ","E","n","g","i","n","e","e","r"," ","I","I">>),
      Rec("title", <<"J","u","n","i","o","r"," ","L","e","a","d">>),
      Rec("title", <<"S","r"," ","D","e","v">>) @@ Rec("company", <<"G","o">>),
      Rec("title", <<"D","e","v">>) @@ Rec("experience_level", NA),
      Rec("title", <<"S","r"," ","D","e","v">>) @@ Rec("experience_level", <<"E","n","t","r","y">>) }
CompanyRecords ==
    { EmptyRecord } \cup { Rec("company", c) : c \in {<<"G","o"," ","I","n","c">>, <<"B","a","d"," ","C","o">>, <<" ","B","a","d","C","o","m","p","a","n","y"," ","L","t","d">>, NA, <<>>} }
KeywordRecords ==
    { EmptyRecord,
      Rec("title", <<"P","y"," ","D","e","v">>),
      Rec("title", NA),
      Rec("title", <<"D","e","v">>) @@ Rec("description", <<"u","s","e","s"," ","p","y">>),
      Rec("title", <<>>) @@ Rec("description", <<>>) }
SalaryRecords ==
    { EmptyRecord } \cup
    { Rec("salary", s) :
        s \in {<<"$","8","0",",","0","0","0">>, <<"9","0","k">>, <<"8","5","k">>, NA, <<>>, <<"D","O","E">>, <<"a","s","k">>, <<"$","1","0","0",",","0","0","0","-","$","1","2","0",",","0","0","0">>} }
JobTypeRecords ==
    { EmptyRecord,
      Rec("job_type", <<"P","a","r","t","-","t","i","m","e">>),
      Rec("job_type", <<"F","u","l","l">>),
      Rec("job_type", NA) @@ Rec("location", <<"R","e","m","o","t","e">>),
      Rec("job_type", <<"p","a","r","t">>) @@ Rec("title", <<"f","u","l","l","-","t","i","m","e"," ","d","e","v">>),
      Rec("job_type", <<>>) @@ Rec("location", <<"N","Y">>),
      Rec("job_type", <<"C","o","n","t","r","a","c","t">>) @@ Rec("location", <<"R","e","m","o","t","e",","," ","U","S">>) }
DateRecords ==
    { EmptyRecord } \cup
    { Rec("posted_date", d) :
        d \in {<<"2"," ","d","a","y","s"," ","a","g","o">>, <<"3"," ","d","a","y","s"," ","a","g","o">>, <<"1"," ","w","e","e","k"," ","a","g","o">>, <<"T","o","d","a","y">>, NA, <<"s","o","o","n">>} }
LocationRecords ==
    { EmptyRecord } \cup
    { Rec("location", l) : l \in {<<"N","Y">>, <<"R","e","m","o","t","e">>, NA, <<"U","S","A">>, <<"A","u","s","t","i","n",","," ","T","X">>} } \cup
    { Rec("location", <<"A","u","s","t","i","n",","," ","T","X">>) @@ Rec("job_type", <<"R","e","m","o","t","e">>) }
MainRecords ==
    { EmptyRecord,
      [title |-> <<"S","r"," ","D","e","v">>, company |-> <<"G","o"," ","I","n","c">>, location |-> <<"N","Y">>,
       posted_date |-> <<"1"," ","d","a","y"," ","a","g","o">>, salary |-> <<"$","8","0",",","0","0","0">>],
      [title |-> <<"S","r"," ","D","e","v">>, company |-> <<"G","o">>, location |-> <<"N","Y">>,
       posted_date |-> <<"1"," ","d","a","y"," ","a","g","o">>, salary |-> <<"9","0","k">>],
      [title |-> <<"J","r"," ","D","e","v">>, company |-> <<"B","a","d"," ","C","o">>, location |-> <<"R","e","m","o","t","e">>,
       posted_date |-> <<"3"," ","d","a","y","s"," ","a","g","o">>, salary |-> <<"9","0","k">>, job_type |-> <<"P","a","r","t","-","t","i","m","e">>],
      [title |-> <<"P","y"," ","D","e","v">>, company |-> NA, posted_date |-> <<"2"," ","d","a","y","s"," ","a","g","o">>,
       salary |-> NA, job_type |-> <<"F","u","l","l">>],
      [title |-> <<"D","e","v">>, description |-> <<"u","s","e","s"," ","p","y">>, experience_level |-> <<"s","e","n","i","o","r">>] }
DuplicateRecords ==
    { EmptyRecord,
      Rec("company", NA),
      [title |-> <<"S","r"," ","D","e","v">>, company |-> <<"G","o"," ","I","n","c">>, location |-> <<"N","Y">>],
      [title |-> <<"S","r"," ","D","e","v">>, company |-> <<"G","o",","," ","I","n","c",".">>, location |-> <<"n","y">>],
      [title |-> <<"S","r"," ","D","e","v">>, company |-> <<"G","o">>, location |-> <<"S","F">>],
      [title |-> <<"J","r"," ","D","e","v">>, company |-> <<"G","o">>, location |-> <<"S","F">>],
      [title |-> <<"D","e","v">>, company |-> <<"B","a","d"," ","C","o">>, location |-> <<"N","Y">>] }

RecordsFor(kind) ==
    CASE kind = "ExperienceFilter" -> ExperienceRecords
      [] kind = "CompanyFilter" -> CompanyRecords
      [] kind = "KeywordFilter" -> KeywordRecords
      [] kind = "SalaryFilter" -> SalaryRecords
      [] kind = "JobTypeFilter" -> JobTypeRecords
      [] kind = "DateFilter" -> DateRecords
      [] kind = "LocationFilter" -> LocationRecords
      [] kind = "MainJobFilter" -> MainRecords
      [] kind = "DuplicateRemover" -> DuplicateRecords

\* similarity thresholds, as fractions: 0.0, 0.5, the default 0.9, 1.0, 1.5
Thresholds == { <<0, 1>>, <<1, 2>>, DefaultThreshold, <<1, 1>>, <<3, 2>> }

MainConfigs ==
    { EmptyRecord,
      [experience_levels |-> <<<<"s","e","n","i","o","r">>, <<"e","n","t","r","y">>>>, exclude_companies |-> <<<<"B","a","d">>>>,
       keywords |-> <<<<"p","y">>, <<"d","e","v">>>>, max_age_days |-> 2],
      [experience_levels |-> <<>>, include_companies |-> <<>>, keywords |-> <<>>,
       max_age_days |-> 0, min_salary |-> 0, remote_only |-> FALSE],
      [min_salary |-> 85000, full_time_only |-> TRUE],
      [include_companies |-> <<<<"g","o">>>>, exclude_keywords |-> <<<<"s","r">>>>,
       max_salary |-> 85000],
      [remote_only |-> TRUE, max_age_days |-> 1] }

\* the configurations filter_jobs is called with
NewConfigs ==
    { EmptyRecord,
      [experience_levels |-> <<<<"M","i","d">>>>, keywords |-> <<<<"p","y">>>>, max_age_days |-> 2] }

Stages ==
    { NewExperienceFilter(l) : l \in {<<>>, <<<<"e","n","t","r","y">>>>, <<<<"S","e","n","i","o","r">>, <<"M","I","D">>>>} }
    \cup { NewCompanyFilter(c[1], c[2]) :
             c \in { <<<<>>, <<>>>>, << <<<<"G","o">>>>, <<>> >>, << <<>>, <<<<"B","a","d","C","o","m","p","a","n","y">>>> >>,
                     << <<<<"g","o">>, <<"b","a","d">>>>, <<<<" ","B","A","D"," ">>>> >> } }
    \cup { NewKeywordFilter(c[1], c[2]) :
             c \in { <<<<>>, <<>>>>, << <<<<"P","y">>>>, <<>> >>, << <<>>, <<<<"d","e","v">>>> >>,
                     << <<<<"p","y">>, <<"d","e","v">>>>, <<<<"n","/","a">>>> >> } }
    \cup { NewSalaryFilter(c[1], c[2]) :
             c \in { <<0, 0>>, <<90000, 0>>, <<0, 85000>>, <<80000, 90000>> } }
    \cup { NewJobTypeFilter(r, f) : r \in BOOLEAN, f \in BOOLEAN }
    \cup { NewDateFilter(h) : h \in {DefaultMaxAgeHours, 48} }
    \cup { NewLocationFilter(c[1], c[2], c[3], c[4]) :
             c \in { << <<>>, <<>>, TRUE, FALSE >>,
                     << <<<<"N","Y">>>>, <<>>, TRUE, FALSE >>,
                     << <<>>, <<<<"N","e","w"," ","Y","o","r","k">>>>, FALSE, FALSE >>,
                     << <<<<"T","e","x","a","s">>>>, <<<<"r","e","m","o","t","e">>>>, TRUE, TRUE >> } }
    \cup { NewDuplicateRemover(t) : t \in Thresholds }
    \cup { NewMainJobFilter(c) : c \in MainConfigs }

(***************************************************************************)
(* The state: the heap of record objects, the job list the caller holds,   *)
(* one stage instance, and the last call of its filter method.             *)
(***************************************************************************)
VARIABLES heap, jobs, inst, calls, last
vars == <<heap, jobs, inst, calls, last>>

NoTicks(h) == [i \in 1..Len(h) |-> 0]

\* whether a call on inst reads the clock
ReadsClock(i) ==
    \/ i.kind = "DateFilter"
    \/ i.kind = "MainJobFilter" /\ TrueInt(i.cfg, "max_age_days")

\* the clock advances that a call on the list js can meet
TickChoices(i, h, js) ==
    IF ReadsClock(i)
    THEN { t \in [1..Len(h) -> 0..1] :
             \A k \in 1..Len(h) : t[k] = 1 => \E p \in 1..Len(js) : js[p] = k }
    ELSE { NoTicks(h) }

Init ==
    /\ heap = <<>>
    /\ jobs = <<>>
    /\ inst \in Stages
    /\ calls = 0
    /\ last = [in |-> <<>>, heap |-> <<>>, out |-> <<>>, raised |-> FALSE,
               examined |-> 0, ticks |-> <<>>, inst |-> inst]

\* the longest list offered to a stage of the kind
MaxLen(kind) == IF kind = "DuplicateRemover" THEN MaxDuplicateJobs ELSE MaxJobs

\* a scraper appends a new record object to the list
AddJob(r) ==
    /\ calls = 0
    /\ Len(jobs) < MaxLen(inst.kind)
    /\ heap' = Append(heap, r)
    /\ jobs' = Append(jobs, Len(heap) + 1)
    /\ UNCHANGED <<inst, calls, last>>

\* the list holds the same record object once more
AddAlias(i) ==
    /\ calls = 0
    /\ Len(jobs) < MaxLen(inst.kind)
    /\ jobs' = Append(jobs, i)
    /\ UNCHANGED <<heap, inst, calls, last>>

\* the call i.filter(jobs) returned (or raised) r
Returned(i, ticks, r) ==
    /\ calls < MaxCalls
    /\ calls' = calls + 1
    /\ heap' = r.heap
    /\ inst' = [i EXCEPT !.stats = r.stats]
    /\ last' = [in |-> jobs, heap |-> heap, out |-> r.out, raised |-> r.raised,
                examined |-> r.examined, ticks |-> ticks, inst |-> i]
    /\ UNCHANGED jobs

Call(i, ticks) == Returned(i, ticks, Filter(i, heap, jobs, ticks))

\* inst.filter(jobs)
CallFilter(ticks) == Call(inst, ticks)

\* main_filter.filter_jobs(jobs, filter_config)
CallFilterJobs(filter_config, ticks) ==
    /\ inst.kind = "MainJobFilter"
    /\ Call([inst EXCEPT !.cfg = filter_config], ticks)

\* the caller goes on with the list the last call returned
UseOutput ==
    /\ calls \in 1..(MaxCalls - 1)
    /\ ~last.raised
    /\ jobs /= last.out
    /\ jobs' = last.out
    /\ UNCHANGED <<heap, inst, calls, last>>

\* the caller goes on with an empty list
UseEmpty ==
    /\ calls \in 1..(MaxCalls - 1)
    /\ jobs /= <<>>
    /\ jobs' = <<>>
    /\ UNCHANGED <<heap, inst, calls, last>>

Next ==
    \/ \E r \in RecordsFor(inst.kind) : AddJob(r)
    \/ \E i \in 1..Len(heap) : AddAlias(i)
    \/ \E t \in TickChoices(inst, heap, jobs) : CallFilter(t)
    \/ \E c \in NewConfigs : \E t \in TickChoices([inst EXCEPT !.cfg = c], heap, jobs) :
           CallFilterJobs(c, t)
    \/ UseOutput
    \/ UseEmpty

Spec == Init /\ [][Next]_vars

(***************************************************************************)
(* Properties of a call.  Called: the stage's filter method was called and *)
(* `last` describes the most recent call.                                  *)
(***************************************************************************)
\* the last call has just returned (or raised): the caller still holds its input
Called == calls >= 1 /\ jobs = last.in
Returned1 == Called /\ ~last.raised

\* a is b with elements left out: equal elements are the same record objects
RECURSIVE IsSubsequence(_, _)
IsSubsequence(a, b) ==
    IF a = <<>> THEN TRUE
    ELSE IF b = <<>> THEN FALSE
    ELSE IF Head(a) = Head(b) THEN IsSubsequence(Tail(a), Tail(b))
    ELSE IsSubsequence(a, Tail(b))

Occurrences(s, x) == Cardinality({i \in 1..Len(s) : s[i] = x})

\* C1: for every stage and every configuration, the list filter returns is a
\* subsequence of its input: every output record is an input record object,
\* none occurs more often than in the input, the order of the survivors is
\* that of the input, and the output is not longer than the input.
C1_Subsequence ==
    Returned1 =>
        /\ IsSubsequence(last.out, last.in)
        /\ \A i \in 1..Len(last.out) :
               /\ \E j \in 1..Len(last.in) : last.in[j] = last.out[i]
               /\ Occurrences(last.out, last.out[i]) <= Occurrences(last.in, last.out[i])
        /\ Len(last.out) <= Len(last.in)

\* a call that kept two records and dropped one, on a list that holds one
\* record object twice
C1_Witness ==
    /\ Returned1
    /\ Len(last.in) = 3
    /\ Len(last.out) = 2
    /\ last.out[1] /= last.out[2]
    /\ \E i, j \in 1..3 : i /= j /\ last.in[i] = last.in[j]

(***************************************************************************)
(* Default configurations and unknown fields                               *)
(***************************************************************************)
\* the stage was built with an empty or default configuration
DefaultConfigured(i) ==
    CASE i.kind = "ExperienceFilter" -> i.cfg.allowed_levels = <<>>
      [] i.kind = "CompanyFilter" ->
            i.cfg.include_companies = <<>> /\ i.cfg.exclude_companies = <<>>
      [] i.kind = "KeywordFilter" ->
            i.cfg.required_keywords = <<>> /\ i.cfg.excluded_keywords = <<>>
      [] i.kind = "SalaryFilter" -> i.cfg.min_salary = 0 /\ i.cfg.max_salary = 0
      [] i.kind = "JobTypeFilter" -> ~i.cfg.remote_only /\ ~i.cfg.full_time_only
      [] i.kind = "LocationFilter" ->
            i.cfg.preferred_locations = <<>> /\ i.cfg.excluded_locations = <<>>
      [] i.kind = "DateFilter" -> i.cfg.max_age_hours = DefaultMaxAgeHours
      [] i.kind = "MainJobFilter" -> DOMAIN i.cfg = {}
      [] OTHER -> FALSE

\* the record at position p of the last call's input, as it was when the call began
InputRecord(p) == last.heap[last.in[p]]

\* the record at position p of the last call's input is in the returned list
Kept(p) == \E i \in 1..Len(last.out) : last.out[i] = last.in[p]

\* the age of the record's posting date is within h hours, or unknown
WithinHours(job, h, tick) ==
    \/ _parse_posting_date(Get(job, "posted_date")) = -1
    \/ _parse_posting_date(Get(job, "posted_date")) * TicksPerHour + tick
           <= h * TicksPerHour

\* C2 as stated: a stage with an empty or default configuration, DateFilter()
\* included, returns exactly its input.
C2_DefaultReturnsInput ==
    (Called /\ DefaultConfigured(last.inst)) => (~last.raised /\ last.out = last.in)

\* C2, amended: a stage other than DateFilter with an empty or default
\* configuration returns exactly its input; DateFilter() has the criterion
\* max_age_hours = 72 and returns the records of the input whose posting date
\* is unknown or at most 72 hours old.
C2_DefaultReturnsInputButDate ==
    (Called /\ DefaultConfigured(last.inst)) =>
        /\ ~last.raised
        /\ last.inst.kind /= "DateFilter" => last.out = last.in
        /\ last.inst.kind = "DateFilter" =>
               last.out = SelectSeq(last.in,
                              LAMBDA ref : WithinHours(last.heap[ref], DefaultMaxAgeHours,
                                                       last.ticks[ref]))

\* an ExperienceFilter with no allowed levels was given two records, one of
\* them with a level no list allows
C2_Witness ==
    /\ Called
    /\ last.inst.kind = "ExperienceFilter"
    /\ DefaultConfigured(last.inst)
    /\ Len(last.in) = 2
    /\ \E p \in 1..2 : "experience_level" \in DOMAIN InputRecord(p)
                          /\ InputRecord(p)["experience_level"] = NA

(***************************************************************************)
(* Statistics                                                              *)
(***************************************************************************)
\* the list MainJobFilter.filter holds after its first k blocks, in the last call
AfterBlocks(k) ==
    MainLoop(SubSeq(MainBlocks(last.inst.cfg), 1, k), 1,
             [out |-> last.in, heap |-> last.heap, raised |-> FALSE, examined |-> 0,
              stats |-> last.inst.stats], last.ticks).out

\* C3: get_stats() describes only the most recent call: original_count is the
\* length of its input, final_count the length of its output, filtered_out or
\* duplicates_removed their difference, and every after_<stage> counter of
\* MainJobFilter is the count after that stage in the last call, or zero if the
\* stage did not run in it.
C3_StatsDescribeLastCall ==
    Returned1 =>
        /\ inst.stats["original_count"] = Len(last.in)
        /\ inst.stats["final_count"] = Len(last.out)
        /\ inst.kind /= "MainJobFilter" =>
               inst.stats[RemovedKey(inst)] = Len(last.in) - Len(last.out)
        /\ inst.kind = "MainJobFilter" =>
               /\ inst.stats["after_location_filter"] = 0
               /\ \A k \in 1..Len(MainBlocks(last.inst.cfg)) :
                      LET b == MainBlocks(last.inst.cfg)[k]
                      IN b.key /= "" =>
                             inst.stats[b.key] =
                                 IF b.enabled THEN Len(AfterBlocks(k)) ELSE 0

(***************************************************************************)
(* MainJobFilter and the pipeline of its stages                            *)
(***************************************************************************)
ListOptions == {"experience_levels", "include_companies", "exclude_companies",
                "keywords", "exclude_keywords"}
IntOptions == {"max_age_days", "min_salary", "max_salary"}
BoolOptions == {"remote_only", "full_time_only"}

\* the option is present in cfg and not empty
Present(cfg, key) ==
    /\ key \in DOMAIN cfg
    /\ key \in ListOptions => cfg[key] /= <<>>
    /\ key \in IntOptions => cfg[key] /= 0
    /\ key \in BoolOptions => cfg[key]

\* the value of the option, or what stands for its absence
Option(cfg, key) ==
    IF key \in DOMAIN cfg THEN cfg[key]
    ELSE IF key \in ListOptions THEN <<>>
    ELSE IF key \in IntOptions THEN 0
    ELSE FALSE

\* the pipeline C4 describes: the six stages in their order, a stage present
\* exactly when at least one of its options is present and not empty
StagesOf(cfg) ==
    << [on |-> Present(cfg, "experience_levels"),
        stage |-> NewExperienceFilter(Option(cfg, "experience_levels"))],
       [on |-> Present(cfg, "include_companies") \/ Present(cfg, "exclude_companies"),
        stage |-> NewCompanyFilter(Option(cfg, "include_companies"),
                                   Option(cfg, "exclude_companies"))],
       [on |-> Present(cfg, "keywords") \/ Present(cfg, "exclude_keywords"),
        stage |-> NewKeywordFilter(Option(cfg, "keywords"),
                                   Option(cfg, "exclude_keywords"))],
       [on |-> Present(cfg, "max_age_days"),
        stage |-> NewDateFilter(Option(cfg, "max_age_days") * HoursPerDay)],
       [on |-> Present(cfg, "min_salary") \/ Present(cfg, "max_salary"),
        stage |-> NewSalaryFilter(Option(cfg, "min_salary"), Option(cfg, "max_salary"))],
       [on |-> Present(cfg, "remote_only") \/ Present(cfg, "full_time_only"),
        stage |-> NewJobTypeFilter(Option(cfg, "remote_only"),
                                   Option(cfg, "full_time_only"))] >>

PipelineOf(cfg) ==
    LET on == SelectSeq(StagesOf(cfg), LAMBDA s : s.on)
    IN [i \in 1..Len(on) |-> on[i].stage]

\* the run of that pipeline on the input of the last call
PipelineRun == apply_filters(PipelineOf(last.inst.cfg), last.heap, last.in, last.ticks)

\* C4: MainJobFilter(cfg).filter(jobs) and filter_jobs_by_criteria(jobs, cfg)
\* return the list that the FilterPipeline of the stages present in cfg
\* returns, and leave the records as that pipeline leaves them; with no option
\* present and non-empty the input is returned.
C4_MainIsPipeline ==
    (Called /\ last.inst.kind = "MainJobFilter") =>
        /\ last.raised = PipelineRun.raised
        /\ last.out = PipelineRun.out
        /\ heap = PipelineRun.heap
        /\ filter_jobs_by_criteria(last.heap, last.in, last.inst.cfg, last.ticks).out
               = PipelineRun.out
        /\ (\A key \in DOMAIN last.inst.cfg : ~Present(last.inst.cfg, key)) =>
               last.out = last.in

\* a MainJobFilter call with four stages present that kept one record of two
C4_Witness ==
    /\ Called
    /\ last.inst.kind = "MainJobFilter"
    /\ Len(PipelineOf(last.inst.cfg)) = 4
    /\ Len(last.in) = 2
    /\ Len(last.out) = 1

(***************************************************************************)
(* Unknown and missing fields                                              *)
(***************************************************************************)
\* the field is absent, empty or 'N/A'
Unknown(job, f) == f \notin DOMAIN job \/ job[f] = <<>> \/ job[f] = NA

\* the stage has a criterion and the field it governs is unknown in the record
GoverningUnknown(i, job) ==
    CASE i.kind = "CompanyFilter" -> ~DefaultConfigured(i) /\ Unknown(job, "company")
      [] i.kind = "KeywordFilter" ->
            /\ i.cfg.required_keywords /= <<>>
            /\ Unknown(job, "title") /\ Unknown(job, "description")
      [] i.kind = "SalaryFilter" -> ~DefaultConfigured(i) /\ Unknown(job, "salary")
      [] i.kind = "DateFilter" -> Unknown(job, "posted_date")
      [] i.kind = "JobTypeFilter" ->
            /\ ~DefaultConfigured(i)
            /\ Unknown(job, "job_type") /\ Unknown(job, "location")
      [] i.kind = "LocationFilter" -> ~DefaultConfigured(i) /\ Unknown(job, "location")
      [] i.kind = "ExperienceFilter" ->
            /\ i.cfg.allowed_levels /= <<>>
            /\ "experience_level" \in DOMAIN job /\ job["experience_level"] = NA
      [] OTHER -> FALSE

\* the cases in which the code keeps a record for want of the governing field
InclusiveUnknown(i, job) ==
    CASE i.kind = "SalaryFilter" -> ~DefaultConfigured(i) /\ Unknown(job, "salary")
      [] i.kind = "DateFilter" -> Unknown(job, "posted_date")
      [] i.kind = "JobTypeFilter" ->
            i.cfg.full_time_only /\ ~i.cfg.remote_only /\ Unknown(job, "job_type")
      [] i.kind = "CompanyFilter" ->
            /\ i.cfg.include_companies = <<>>
            /\ i.cfg.exclude_companies /= <<>>
            /\ \A k \in 1..Len(i.cfg.exclude_companies) : i.cfg.exclude_companies[k] /= <<>>
            /\ ("company" \notin DOMAIN job \/ job["company"] = <<>>)
      [] OTHER -> FALSE

\* C5 as stated: every stage with a configured criterion keeps a record whose
\* governing field is absent, empty or 'N/A'.
C5_UnknownIsKept ==
    Returned1 =>
        \A p \in 1..Len(last.in) : GoverningUnknown(last.inst, InputRecord(p)) => Kept(p)

\* C5, amended: SalaryFilter keeps a record whose salary is absent, empty or
\* 'N/A', DateFilter one whose posted_date is, JobTypeFilter with
\* full_time_only and without remote_only one whose job_type is, and
\* CompanyFilter with only an exclude list of non-empty names keeps a record
\* whose company is absent or empty.
C5_UnknownKeptWhereInclusive ==
    Returned1 =>
        \A p \in 1..Len(last.in) : InclusiveUnknown(last.inst, InputRecord(p)) => Kept(p)

\* a SalaryFilter with a bound kept a record with salary 'N/A' and dropped another
C5_Witness ==
    /\ Returned1
    /\ last.inst.kind = "SalaryFilter"
    /\ ~DefaultConfigured(last.inst)
    /\ Len(last.in) = 2
    /\ Len(last.out) = 1
    /\ "salary" \in DOMAIN last.heap[last.out[1]]
    /\ last.heap[last.out[1]]["salary"] = NA

\* the records the stages of a MainJobFilter call examine: each stage that
\* runs examines the whole list the stage before it left
RECURSIVE ExaminedByBlocks(_)
ExaminedByBlocks(k) ==
    IF k = 0 THEN 0
    ELSE ExaminedByBlocks(k - 1)
         + (IF MainBlocks(last.inst.cfg)[k].enabled THEN Len(AfterBlocks(k - 1)) ELSE 0)

\* C6: no stage, MainJobFilter run or FilterPipeline run raises or stops early
\* on records that lack fields: the call returns, and every stage that does
\* not return its input at once examines every record of its input.
C6_NoRaiseNoEarlyStop ==
    Called =>
        /\ ~last.raised
        /\ (last.inst.kind /= "MainJobFilter" /\ ~ReturnsInput(last.inst, last.in)) =>
               last.examined = Len(last.in)
        /\ last.inst.kind = "MainJobFilter" =>
               /\ last.examined = ExaminedByBlocks(Len(MainBlocks(last.inst.cfg)))
               /\ ~PipelineRun.raised

\* a stage with a criterion was given the empty record followed by another
\* record and examined both
C6_Witness ==
    /\ Called
    /\ last.inst.kind \notin {"MainJobFilter", "DuplicateRemover"}
    /\ ~ReturnsInput(last.inst, last.in)
    /\ Len(last.in) = 2
    /\ InputRecord(1) = EmptyRecord
    /\ InputRecord(2) /= EmptyRecord
    /\ last.examined = 2
    /\ ~last.raised

(***************************************************************************)
(* DuplicateRemover                                                        *)
(***************************************************************************)
Deduplicated == Returned1 /\ last.inst.kind = "DuplicateRemover"

\* the normalized title, company and location of a record
NormalizedTriple(job) ==
    << _normalize_text(Get(job, "title")), _normalize_text(Get(job, "company")),
       _normalize_text(Get(job, "location")) >>

\* C7: whatever the threshold, no two records of the output of
\* DuplicateRemover.filter have the same normalized title, company and
\* location; of an input of two such records the first alone is returned.
C7_SameTripleOneSurvivor ==
    Deduplicated =>
        /\ \A i, j \in 1..Len(last.out) :
               i < j => NormalizedTriple(last.heap[last.out[i]])
                           /= NormalizedTriple(last.heap[last.out[j]])
        /\ (/\ Len(last.in) = 2
            /\ NormalizedTriple(InputRecord(1)) = NormalizedTriple(InputRecord(2)))
           => last.out = <<last.in[1]>>

\* at a threshold above 1.0, two records that differ as texts and agree once
\* normalized were reduced to the first
C7_Witness ==
    /\ Deduplicated
    /\ last.inst.cfg.similarity_threshold = <<3, 2>>
    /\ Len(last.in) = 2
    /\ InputRecord(1) /= InputRecord(2)
    /\ NormalizedTriple(InputRecord(1)) = NormalizedTriple(InputRecord(2))
    /\ last.out = <<last.in[1]>>

\* what the last call would have returned for the first k records of its input
OutOfPrefix(k) ==
    StageFilter(last.inst, last.heap, SubSeq(last.in, 1, k), last.ticks).out

\* the lists returned for the first 0, 1, ..., k records
RECURSIVE OutOfPrefixes(_)
OutOfPrefixes(k) ==
    IF k = 0 THEN <<OutOfPrefix(0)>> ELSE Append(OutOfPrefixes(k - 1), OutOfPrefix(k))

\* the record at position p entered the list of kept records; outs[k + 1] is
\* the list returned for the first k records
KeptAt(outs, p) == Len(outs[p + 1]) = Len(outs[p]) + 1

\* the record at position q makes the one at position p a duplicate
Covers(q, p) ==
    \/ _create_job_signature(InputRecord(q)) = _create_job_signature(InputRecord(p))
    \/ AtLeast(_calculate_similarity(InputRecord(p), InputRecord(q)),
               last.inst.cfg.similarity_threshold)

FirstSeenWins(outs) ==
    /\ last.in /= <<>> => (last.out /= <<>> /\ last.out[1] = last.in[1])
    /\ \A k \in 1..Len(outs) :
           /\ Len(outs[k]) <= Len(last.out)
           /\ outs[k] = SubSeq(last.out, 1, Len(outs[k]))
    /\ \A p \in 1..Len(last.in) :
           ~KeptAt(outs, p) => \E q \in 1..(p - 1) : KeptAt(outs, q) /\ Covers(q, p)

\* C8: DuplicateRemover.filter is first-seen-wins: the first record is kept,
\* what was kept of a prefix of the input stays, in place, in the output, and
\* every dropped record comes after a kept record with the same signature or a
\* similarity of at least the threshold.
C8_FirstSeenWins ==
    Deduplicated => FirstSeenWins(OutOfPrefixes(Len(last.in)))

\* of three records the second was dropped for its similarity to the first,
\* their signatures being different, and the third was kept
C8_Witness ==
    /\ Deduplicated
    /\ last.inst.cfg.similarity_threshold = DefaultThreshold
    /\ Len(last.in) = 3
    /\ last.out = <<last.in[1], last.in[3]>>
    /\ _create_job_signature(InputRecord(1)) /= _create_job_signature(InputRecord(2))

\* C10: _calculate_similarity(a, b) = _calculate_similarity(b, a) for all
\* records a and b that a caller holds for a DuplicateRemover, those without
\* title or company included.
C10_SimilaritySymmetric ==
    (inst.kind = "DuplicateRemover" /\ calls = 0) =>
        \A a, b \in 1..Len(heap) :
            a < b => _calculate_similarity(heap[a], heap[b])
                        = _calculate_similarity(heap[b], heap[a])

\* two records share some words and not all, and a third has the company 'N/A'
C10_Witness ==
    /\ inst.kind = "DuplicateRemover"
    /\ calls = 0
    /\ \E a, b \in 1..Len(heap) :
           /\ _calculate_similarity(heap[a], heap[b])[1] > 0
           /\ _calculate_similarity(heap[a], heap[b])[1]
                  < _calculate_similarity(heap[a], heap[b])[2]
    /\ \E c \in 1..Len(heap) : "company" \in DOMAIN heap[c] /\ heap[c]["company"] = NA

(***************************************************************************)
(* Company names that differ by suffix, case, punctuation or whitespace.   *)
(* Two records with the same title are held; the company of the second is  *)
(* rewritten one difference at a time, and deduplicate_jobs is called at    *)
(* its default threshold.                                                  *)
(***************************************************************************)
MaxNameLen == 5

NameTitle == <<"S","r"," ","D","e","v">>
BaseNames == { <<"G","o">>, NA }
NameLocations == { <<"N","Y">>, <<"S","F">> }
\* the whitespace and punctuation characters written into a name
NameMarks == { " ", "-", "_" }

UpperOf == [c \in LowerSet |-> UpperChars[CHOOSE i \in 1..26 : LowerChars[i] = c]]
SwapCase(c) == IF c \in UpperSet THEN LowerOf[c] ELSE UpperOf[c]

InitNames ==
    /\ \E b \in BaseNames : \E l \in NameLocations :
           heap = << [title |-> NameTitle, company |-> b, location |-> <<"N","Y">>],
                     [title |-> NameTitle, company |-> b, location |-> l] >>
    /\ jobs = <<1, 2>>
    /\ inst = NewDuplicateRemover(DefaultThreshold)
    /\ calls = 0
    /\ last = [in |-> <<>>, heap |-> <<>>, out |-> <<>>, raised |-> FALSE,
               examined |-> 0, ticks |-> <<>>, inst |-> inst]

\* the second record's company becomes c
Rename(c) ==
    /\ calls = 0
    /\ Len(c) <= MaxNameLen
    /\ heap' = [heap EXCEPT ![2]["company"] = c]
    /\ UNCHANGED <<jobs, inst, calls, last>>

\* a letter of the name changes case
FlipCase(k) ==
    /\ heap[2]["company"][k] \in LowerSet \cup UpperSet
    /\ Rename([heap[2]["company"] EXCEPT ![k] = SwapCase(@)])

\* a whitespace or punctuation character is written after the first k characters
InsertMark(k, c) ==
    Rename(SubSeq(heap[2]["company"], 1, k) \o <<c>>
           \o SubSeq(heap[2]["company"], k + 1, Len(heap[2]["company"])))

\* a whitespace or punctuation character of the name is taken out
RemoveMark(k) ==
    /\ ~(heap[2]["company"][k] \in LowerSet \cup UpperSet \cup DigitChars)
    /\ Rename(SubSeq(heap[2]["company"], 1, k - 1)
              \o SubSeq(heap[2]["company"], k + 1, Len(heap[2]["company"])))

\* a corporate suffix is written after the name
AppendSuffix(s) == Rename(heap[2]["company"] \o <<" ">> \o s)

\* the rewritten record comes first in the list
SwapNames ==
    /\ calls = 0
    /\ jobs = <<1, 2>>
    /\ jobs' = <<2, 1>>
    /\ UNCHANGED <<heap, inst, calls, last>>

\* deduplicate_jobs(jobs)
DeduplicateNames ==
    /\ calls = 0
    /\ Returned(inst, NoTicks(heap),
                deduplicate_jobs(heap, jobs, DefaultThreshold, NoTicks(heap)))

NextNames ==
    \/ \E k \in 1..Len(heap[2]["company"]) : FlipCase(k)
    \/ \E k \in 0..Len(heap[2]["company"]) : \E c \in NameMarks : InsertMark(k, c)
    \/ \E k \in 1..Len(heap[2]["company"]) : RemoveMark(k)
    \/ \E k \in 1..Len(company_suffixes) : AppendSuffix(company_suffixes[k])
    \/ SwapNames
    \/ DeduplicateNames

SpecNames == InitNames /\ [][NextNames]_vars

\* deduplicate_jobs was called on two records with the same title
NamesDeduplicated ==
    /\ calls = 1
    /\ ~last.raised
    /\ Len(last.in) = 2
    /\ last.in[1] /= last.in[2]
    /\ Get(InputRecord(1), "title") = Get(InputRecord(2), "title")

\* a word of a name without its case and its punctuation other than '_'
CleanWord(t) == SelectSeq(Lower(t), IsWordChar)

\* the words of a company name, the corporate suffixes left out
NameWords(c) ==
    { CleanWord(t) : t \in SplitSet(c) }
        \ ({<<>>} \cup { company_suffixes[k] : k \in 1..Len(company_suffixes) })

\* C9 as stated: at the default threshold, two records with the same title
\* whose companies differ only by a corporate suffix, letter case, punctuation
\* or whitespace are deduplicated to the first of the two, whatever their
\* locations.
C9_VariantsDeduplicate ==
    NamesDeduplicated => last.out = <<last.in[1]>>

\* C9, amended: such records are deduplicated to the first of the two,
\* whatever their locations, when neither company is the text 'N/A' and the
\* differences leave the words of the name the same: the words between
\* whitespace, without case, without punctuation other than the underscore,
\* and without the words inc, corp, ltd, llc and co.
C9_SameWordsDeduplicate ==
    (/\ NamesDeduplicated
     /\ Get(InputRecord(1), "company") /= NA
     /\ Get(InputRecord(2), "company") /= NA
     /\ NameWords(Get(InputRecord(1), "company"))
            = NameWords(Get(InputRecord(2), "company")))
    => last.out = <<last.in[1]>>

\* 'Go Co' in some other case, in another location, came first and 'Go'
\* second, and the first alone was returned
C9_Witness ==
    /\ NamesDeduplicated
    /\ last.in = <<2, 1>>
    /\ InputRecord(2)["company"] = <<"G","o">>
    /\ Lower(InputRecord(1)["company"]) = <<"g","o"," ","c","o">>
    /\ InputRecord(1)["company"] /= <<"g","o"," ","c","o">>
    /\ InputRecord(1)["location"] /= InputRecord(2)["location"]
    /\ last.out = <<2>>

(***************************************************************************)
(* SalaryFilter: texts without digits                                      *)
(***************************************************************************)
HasDigit(t) == \E i \in 1..Len(t) : t[i] \in DigitChars

\* C11: whatever the bounds, SalaryFilter keeps every record whose salary is
\* absent, empty, 'N/A' or a text without a digit character.
C11_NoDigitSalaryKept ==
    (Returned1 /\ last.inst.kind = "SalaryFilter") =>
        \A p \in 1..Len(last.in) :
            ~HasDigit(Get(InputRecord(p), "salary")) => Kept(p)

(***************************************************************************)
(* DateFilter: the ages of the relative dates                              *)
(***************************************************************************)
\* the age in hours that 'N hours ago', 'N days ago', 'N weeks ago', 'N months
\* ago', 'today' and 'yesterday' stand for; -1 for any other text
StatedAge(posted_date) ==
    IF IsBlank(posted_date) THEN -1
    ELSE IF Contains(Lower(posted_date), <<"a","g","o">>) /\ HasDigit(posted_date)
              /\ AnyIn(<<<<"h","o","u","r">>, <<"d","a","y">>, <<"w","e","e","k">>, <<"m","o","n","t","h">>>>, Lower(posted_date))
         THEN FirstNumber(posted_date)
              * (IF Contains(Lower(posted_date), <<"h","o","u","r">>) THEN 1
                 ELSE IF Contains(Lower(posted_date), <<"d","a","y">>) THEN 24
                 ELSE IF Contains(Lower(posted_date), <<"w","e","e","k">>) THEN 168
                 ELSE 720)
    ELSE IF Contains(Lower(posted_date), <<"t","o","d","a","y">>) THEN 0
    ELSE IF Contains(Lower(posted_date), <<"y","e","s","t","e","r","d","a","y">>) THEN 24
    ELSE -1

\* C12: DateFilter(max_age_hours = H) keeps a record iff its posted_date is
\* absent, 'N/A' or unparseable, or its stated age is at most H hours; a
\* record whose age is exactly H is kept.
C12_KeptIffWithinAge ==
    (Returned1 /\ last.inst.kind = "DateFilter") =>
        \A p \in 1..Len(last.in) :
            Kept(p) <=> \/ StatedAge(Get(InputRecord(p), "posted_date")) = -1
                        \/ StatedAge(Get(InputRecord(p), "posted_date"))
                               <= last.inst.cfg.max_age_hours


(***************************************************************************)
(* ExperienceFilter: the classifier and the enrichment                     *)
(***************************************************************************)
\* an ExperienceFilter with allowed levels has just examined its input
Classified ==
    /\ Returned1
    /\ last.inst.kind = "ExperienceFilter"
    /\ last.inst.cfg.allowed_levels /= <<>>

\* the record at position p of the input had no experience_level
Lacked(p) == "experience_level" \notin DOMAIN InputRecord(p)

\* the experience_level the record at position p has after the call
LevelAfter(p) == heap[last.in[p]]["experience_level"]

\* C13: the level detected for a title is 'entry' iff the lowercased title
\* holds an entry keyword, otherwise 'senior' iff it holds a senior keyword,
\* otherwise 'mid' (also for an empty title); it is one of the three; and the
\* three example titles give entry, senior and mid.
C13_DetectedLevel ==
    Classified =>
        \A p \in 1..Len(last.in) :
            Lacked(p) =>
                LET title == Get(InputRecord(p), "title") IN
                /\ LevelAfter(p) \in {<<"e","n","t","r","y">>, <<"m","i","d">>, <<"s","e","n","i","o","r">>}
                /\ LevelAfter(p) = <<"e","n","t","r","y">> <=> AnyIn(entry_keywords, Lower(title))
                /\ LevelAfter(p) = <<"s","e","n","i","o","r">> <=>
                       /\ ~AnyIn(entry_keywords, Lower(title))
                       /\ AnyIn(senior_keywords, Lower(title))
                /\ title = <<>> => LevelAfter(p) = <<"m","i","d">>
                /\ title = <<"J","u","n","i","o","r"," ","S","o","f","t","w","a","r","e"," ","E","n","g","i","n","e","e","r">> => LevelAfter(p) = <<"e","n","t","r","y">>
                /\ title = <<"S","e","n","i","o","r"," ","B","a","c","k","e","n","d"," ","L","e","a","d">> => LevelAfter(p) = <<"s","e","n","i","o","r">>
                /\ title = <<"S","o","f","t","w","a","r","e"," ","E","n","g","i","n","e","e","r"," ","I","I">> => LevelAfter(p) = <<"m","i","d">>

\* a title with an entry term and a senior term and a title with neither were
\* classified in one call
C13_Witness ==
    /\ Classified
    /\ Len(last.in) = 2
    /\ Lacked(1) /\ Lacked(2)
    /\ Get(InputRecord(1), "title") = <<"J","u","n","i","o","r"," ","L","e","a","d">>
    /\ LevelAfter(1) = <<"e","n","t","r","y">>
    /\ Get(InputRecord(2), "title") = <<"S","o","f","t","w","a","r","e"," ","E","n","g","i","n","e","e","r"," ","I","I">>
    /\ LevelAfter(2) = <<"m","i","d">>

\* the list and the records that the stage of the last call gives when it is
\* applied to what that call returned
Reapplied == StageFilter(last.inst, heap, last.out, last.ticks)

\* applying the filter to its own output changes neither list nor records
Idempotent(again) == ~again.raised /\ again.out = last.out /\ again.heap = heap

\* no field a record had was removed or changed, and nothing but
\* experience_level was added
NonDestructive ==
    \A r \in 1..Len(last.heap) :
        /\ \A f \in DOMAIN last.heap[r] :
               f \in DOMAIN heap[r] /\ heap[r][f] = last.heap[r][f]
        /\ DOMAIN heap[r] \ DOMAIN last.heap[r] \subseteq {"experience_level"}

\* every returned record has an experience_level whose lowercase is allowed
LevelsAllowed ==
    \A i \in 1..Len(last.out) :
        /\ "experience_level" \in DOMAIN heap[last.out[i]]
        /\ InList(Lower(heap[last.out[i]]["experience_level"]),
                  last.inst.cfg.allowed_levels)

\* C14 as stated: for every allowed set L, ExperienceFilter(L) applied to its
\* own output gives the same list and levels, keeps an experience_level that
\* is present, changes no other field, and returns only records whose
\* experience_level is in L.
C14_EnrichmentIdempotent ==
    (Returned1 /\ last.inst.kind = "ExperienceFilter") =>
        /\ Idempotent(Reapplied)
        /\ NonDestructive
        /\ LevelsAllowed

\* C14, amended: the same, the last part for a non-empty L only (L compared
\* in lower case): with an empty L the input is returned as it is, records
\* without experience_level or with a level outside L included.
C14_EnrichmentIdempotentAllowed ==
    (Returned1 /\ last.inst.kind = "ExperienceFilter") =>
        /\ Idempotent(Reapplied)
        /\ NonDestructive
        /\ last.inst.cfg.allowed_levels /= <<>> => LevelsAllowed

\* a record that came with the level 'Entry' and the title 'Sr Dev' was kept as
\* it was, next to a record that was given its level by the call
C14_Witness ==
    /\ Classified
    /\ Len(last.in) = 2
    /\ Len(last.out) = 2
    /\ ~Lacked(1)
    /\ InputRecord(1)["experience_level"] = <<"E","n","t","r","y">>
    /\ Get(InputRecord(1), "title") = <<"S","r"," ","D","e","v">>
    /\ Lacked(2)
    /\ "experience_level" \in DOMAIN heap[last.in[2]]

(***************************************************************************)
(* CompanyFilter: exclude wins over include                                *)
(***************************************************************************)
\* some entry of the list, lowercased and trimmed, is a substring of the
\* record's lowercased, trimmed company name
Names(list, job) ==
    \E k \in 1..Len(list) :
        Contains(Strip(Lower(Get(job, "company"))), Strip(Lower(list[k])))

\* C15: CompanyFilter drops a record whenever an exclude entry is a substring
\* of its company name, also when an include entry is; a record not excluded
\* is kept iff there is no include list or an include entry is a substring of
\* its company name; exclude_companies = ['BadCompany'] drops 'BadCompany Ltd'.
C15_ExcludeWins ==
    (Returned1 /\ last.inst.kind = "CompanyFilter") =>
        \A p \in 1..Len(last.in) :
            /\ Names(last.inst.cfg.exclude_companies, InputRecord(p)) => ~Kept(p)
            /\ ~Names(last.inst.cfg.exclude_companies, InputRecord(p)) =>
                   (Kept(p) <=> \/ last.inst.cfg.include_companies = <<>>
                                \/ Names(last.inst.cfg.include_companies, InputRecord(p)))
            /\ (/\ last.inst.cfg.exclude_companies = <<<<"b","a","d","c","o","m","p","a","n","y">>>>
                /\ Get(InputRecord(p), "company") = <<" ","B","a","d","C","o","m","p","a","n","y"," ","L","t","d">>) => ~Kept(p)

\* a company named by the include list and by the exclude list was dropped and
\* one named by the include list alone was kept
C15_Witness ==
    /\ Returned1
    /\ last.inst.kind = "CompanyFilter"
    /\ Len(last.in) = 2
    /\ Names(last.inst.cfg.include_companies, InputRecord(1))
    /\ Names(last.inst.cfg.exclude_companies, InputRecord(1))
    /\ Names(last.inst.cfg.include_companies, InputRecord(2))
    /\ last.out = <<last.in[2]>>

(***************************************************************************)
(* FilterPipeline.  The instance held is a pipeline: stages are added with *)
(* add_filter, then apply_filters is called on the list.                   *)
(***************************************************************************)
MaxStages == 2

PipelineRecords ==
    { [title |-> <<"S","r"," ","D","e","v">>, company |-> <<"G","o"," ","I","n","c">>, salary |-> <<"9","0","k">>],
      [title |-> <<"S","r"," ","D","e","v">>, company |-> <<"G","o">>],
      [title |-> <<"J","r"," ","D","e","v">>, company |-> <<"B","a","d"," ","C","o">>, salary |-> <<"$","8","0",",","0","0","0">>] }

PipelineStages ==
    { NewCompanyFilter(<<>>, <<<<"i","n","c">>>>),
      NewCompanyFilter(<<>>, <<<<"B","a","d">>>>),
      NewSalaryFilter(0, 0),
      NewSalaryFilter(85000, 0),
      NewDuplicateRemover(DefaultThreshold) }

\* FilterPipeline()
NewFilterPipeline == [kind |-> "FilterPipeline", filters |-> <<>>]

InitPipeline ==
    /\ heap = <<>>
    /\ jobs = <<>>
    /\ inst = NewFilterPipeline
    /\ calls = 0
    /\ last = [in |-> <<>>, heap |-> <<>>, out |-> <<>>, raised |-> FALSE,
               examined |-> 0, ticks |-> <<>>, inst |-> inst]

\* pipeline.add_filter(filter_instance)
add_filter(filter_instance) ==
    /\ calls = 0
    /\ Len(inst.filters) < MaxStages
    /\ inst' = [inst EXCEPT !.filters = Append(@, filter_instance)]
    /\ UNCHANGED <<heap, jobs, calls, last>>

\* apply_filters returned r
PipelineReturned(r) ==
    /\ calls < MaxCalls
    /\ calls' = calls + 1
    /\ heap' = r.heap
    /\ inst' = [inst EXCEPT !.filters = r.filters]
    /\ last' = [in |-> jobs, heap |-> heap, out |-> r.out, raised |-> r.raised,
                examined |-> 0, ticks |-> NoTicks(heap), inst |-> inst]
    /\ UNCHANGED jobs

\* pipeline.apply_filters(jobs)
CallApplyFilters == PipelineReturned(apply_filters(inst.filters, heap, jobs, NoTicks(heap)))

NextPipeline ==
    \/ \E f \in PipelineStages : add_filter(f)
    \/ \E r \in PipelineRecords : AddJob(r)
    \/ \E i \in 1..Len(heap) : AddAlias(i)
    \/ CallApplyFilters
    \/ UseOutput
    \/ UseEmpty

SpecPipeline == InitPipeline /\ [][NextPipeline]_vars

\* apply_filters has just returned
Applied == Called /\ ~last.raised /\ last.inst.kind = "FilterPipeline"

\* the list and the records after the first i stages of the last run, each
\* stage given what the stage before it returned
RECURSIVE StageByStage(_)
StageByStage(i) ==
    IF i = 0 THEN [out |-> last.in, heap |-> last.heap]
    ELSE Filter(last.inst.filters[i], StageByStage(i - 1).heap,
                StageByStage(i - 1).out, last.ticks)

\* the pipeline of the last run holds no DuplicateRemover
NoRemover ==
    \A i \in 1..Len(last.inst.filters) : last.inst.filters[i].kind /= "DuplicateRemover"

\* the record at position p, given alone to the pipeline of the last run, is returned
KeptAlone(p) ==
    apply_filters(last.inst.filters, last.heap, <<last.in[p]>>, last.ticks).out /= <<>>

\* C16: apply_filters applies the stages in the order of the add_filter calls,
\* each on what the stage before it returned, and returns what the last stage
\* returned, the input itself when there is no stage; without a
\* DuplicateRemover among the stages no record is dropped on account of
\* another record.
C16_StagesInOrder ==
    Applied =>
        /\ last.out = StageByStage(Len(last.inst.filters)).out
        /\ last.inst.filters = <<>> => last.out = last.in
        /\ NoRemover => \A p \in 1..Len(last.in) : Kept(p) <=> KeptAlone(p)

\* a DuplicateRemover added before a CompanyFilter left nothing of two
\* duplicates of which the CompanyFilter excludes the first
C16_Witness ==
    /\ Applied
    /\ Len(last.inst.filters) = 2
    /\ last.inst.filters[1].kind = "DuplicateRemover"
    /\ last.inst.filters[2].kind = "CompanyFilter"
    /\ Len(last.in) = 2
    /\ KeptAlone(2)
    /\ last.out = <<>>

\* the statistics the pipeline reports after the last run
PipelineStats == get_pipeline_stats(inst.filters)

\* the entry of the stage at position i in the reported statistics
StatsEntry(i) == PipelineStats[last.inst.filters[i].kind]

\* C18: after apply_filters the statistics of the pipeline hold one entry per
\* stage, and the entry of each stage gives the number of records that stage
\* received and the number it returned in this run (so the first received
\* count is the input length and each later one the count returned before).
C18_StatsPerStage ==
    Applied =>
        /\ Cardinality(DOMAIN PipelineStats) = Len(last.inst.filters)
        /\ \A i \in 1..Len(last.inst.filters) :
               /\ StatsEntry(i).original_count = Len(StageByStage(i - 1).out)
               /\ StatsEntry(i).final_count = Len(StageByStage(i).out)

(***************************************************************************)
(* ScraperManager.  Here the instance held is a manager, the job list is   *)
(* the list the last scrape returned, the heap holds the records of that   *)
(* list, and last is the last call made on the manager.                    *)
(***************************************************************************)
MaxScraped == 1
MaxDuration == 1

\* two of the scrapers of ScraperManager.__init__
Scrapers == {"linkedin", "indeed"}
\* the names a caller passes, one of them not a scraper
ScraperNames == Scrapers \cup {"monster"}
\* scrape_jobs raised
Failed == 0 - 1
\* scrape_jobs raised, returned no job, or returned MaxScraped jobs
Outcomes == {Failed, 0, MaxScraped}

\* the statistics of __init__ and of reset_stats
FreshStats ==
    [total_jobs |-> 0, jobs_by_source |-> <<>>, scraping_duration |-> 0,
     failed_scrapers |-> <<>>]

\* ScraperManager()
NewScraperManager == [kind |-> "ScraperManager", stats |-> FreshStats]

\* get_scraping_stats: self.stats.copy()
get_scraping_stats(self) == [k \in DOMAIN self.stats |-> self.stats[k]]

\* a reset that clears the two counters only
ResetCounters(self) ==
    [self EXCEPT !.stats = [@ EXCEPT !.total_jobs = 0, !.scraping_duration = 0]]

reset_stats(self) == [self EXCEPT !.stats = FreshStats]

\* n job records scraped from one source
Scraped(scraper_name, n) == [k \in 1..n |-> [source |-> scraper_name, title |-> k]]

\* scrape_single_source, scrape_jobs of the scraper having the given outcome
scrape_single_source(self, h, scraper_name, outcome) ==
    IF scraper_name \notin Scrapers
      THEN [self |-> self, heap |-> h, out |-> <<>>]
    ELSE IF outcome = Failed
      THEN [self |-> [self EXCEPT !.stats.failed_scrapers = Append(@, scraper_name)],
            heap |-> h, out |-> <<>>]
    ELSE [self |-> [self EXCEPT !.stats.jobs_by_source = (scraper_name :> outcome) @@ @],
          heap |-> h \o Scraped(scraper_name, outcome),
          out |-> [k \in 1..outcome |-> Len(h) + k]]

\* workers that are not started once a scraper has failed
RECURSIVE ScrapeUntilFailure(_, _, _, _, _)
ScrapeUntilFailure(st, scraper_names, ran, i, outcome) ==
    IF i > Len(ran) \/ (i > 1 /\ outcome[ran[i - 1]] = Failed) THEN st
    ELSE ScrapeUntilFailure(
             [self |-> scrape_single_source(st.self, st.heap, scraper_names[ran[i]],
                                            outcome[ran[i]]).self,
              heap |-> scrape_single_source(st.self, st.heap, scraper_names[ran[i]],
                                            outcome[ran[i]]).heap,
              outs |-> [st.outs EXCEPT ![ran[i]] =
                           scrape_single_source(st.self, st.heap, scraper_names[ran[i]],
                                                outcome[ran[i]]).out]],
             scraper_names, ran, i + 1, outcome)

\* the workers of scrape_multiple_sources: scrape_single_source for the names
\* at the positions ran[i], ran[i + 1], ..., one after the other.  ran is the
\* order of the list when sequential and the order in which the workers get
\* to their statistics when parallel; outcome[k] is the outcome of
\* scrape_jobs for scraper_names[k]; st.outs[k] is the list the call for
\* scraper_names[k] returned
RECURSIVE ScrapeInOrder(_, _, _, _, _)
ScrapeInOrder(st, scraper_names, ran, i, outcome) ==
    IF i > Len(ran) THEN st
    ELSE ScrapeInOrder(
             [self |-> scrape_single_source(st.self, st.heap, scraper_names[ran[i]],
                                            outcome[ran[i]]).self,
              heap |-> scrape_single_source(st.self, st.heap, scraper_names[ran[i]],
                                            outcome[ran[i]]).heap,
              outs |-> [st.outs EXCEPT ![ran[i]] =
                           scrape_single_source(st.self, st.heap, scraper_names[ran[i]],
                                                outcome[ran[i]]).out]],
             scraper_names, ran, i + 1, outcome)

\* all_jobs: the lists extended in the order the calls completed
RECURSIVE Collected(_, _, _)
Collected(outs, completed, i) ==
    IF i > Len(completed) THEN <<>>
    ELSE outs[completed[i]] \o Collected(outs, completed, i + 1)

\* the final statistics of scrape_multiple_sources
Totalled(st, all_jobs, duration) ==
    [self |-> [st.self EXCEPT !.stats.total_jobs = Len(all_jobs),
                              !.stats.scraping_duration = duration],
     heap |-> st.heap, out |-> all_jobs]

scrape_multiple_sources(self, h, scraper_names, ran, completed, outcome, duration) ==
    Totalled(ScrapeInOrder([self |-> self, heap |-> h,
                            outs |-> [k \in 1..Len(scraper_names) |-> <<>>]],
                           scraper_names, ran, 1, outcome),
             Collected(ScrapeInOrder([self |-> self, heap |-> h,
                                      outs |-> [k \in 1..Len(scraper_names) |-> <<>>]],
                                     scraper_names, ran, 1, outcome).outs,
                       completed, 1),
             duration)

\* the lists of names a caller passes
NameLists ==
    { <<>>, <<"linkedin">>, <<"linkedin", "indeed">>, <<"indeed", "monster">> }

\* the orders in which the sources may complete
Orders(scraper_names, parallel) ==
    IF parallel /\ Len(scraper_names) > 1
      THEN { o \in [1..Len(scraper_names) -> 1..Len(scraper_names)] :
                 \A a, b \in 1..Len(scraper_names) : o[a] = o[b] => a = b }
      ELSE { [k \in 1..Len(scraper_names) |-> k] }

InitManager ==
    /\ heap = <<>>
    /\ jobs = <<>>
    /\ inst = NewScraperManager
    /\ calls = 0
    /\ last = [op |-> "__init__", inst |-> inst, out |-> <<>>, args |-> <<>>]

\* a call with the arguments args returned a list of jobs
Scrape(op, args, r) ==
    /\ calls < MaxCalls
    /\ calls' = calls + 1
    /\ heap' = r.heap
    /\ jobs' = r.out
    /\ inst' = r.self
    /\ last' = [op |-> op, inst |-> inst, out |-> r.out, args |-> args]

\* manager.scrape_single_source(scraper_name)
CallScrapeSingleSource(scraper_name, outcome) ==
    Scrape("scrape_single_source",
           [scraper_names |-> <<scraper_name>>, parallel |-> FALSE, outcome |-> <<outcome>>],
           scrape_single_source(inst, <<>>, scraper_name, outcome))

\* manager.scrape_multiple_sources(scraper_names, parallel=parallel)
CallScrapeMultipleSources(scraper_names, parallel, outcome, duration) ==
    \E ran, completed \in Orders(scraper_names, parallel) :
        Scrape("scrape_multiple_sources",
               [scraper_names |-> scraper_names, parallel |-> parallel, outcome |-> outcome],
               scrape_multiple_sources(inst, <<>>, scraper_names, ran, completed,
                                       outcome, duration))

\* manager.reset_stats()
CallResetStats ==
    /\ calls < MaxCalls
    /\ calls' = calls + 1
    /\ inst' = reset_stats(inst)
    /\ last' = [op |-> "reset_stats", inst |-> inst, out |-> <<>>, args |-> <<>>]
    /\ UNCHANGED <<heap, jobs>>

\* manager.get_scraping_stats()
CallGetScrapingStats ==
    /\ calls < MaxCalls
    /\ calls' = calls + 1
    /\ last' = [op |-> "get_scraping_stats", inst |-> inst, out |-> get_scraping_stats(inst),
                args |-> <<>>]
    /\ UNCHANGED <<heap, jobs, inst>>

\* a name that is no scraper has no outcome, which is written as no job; a call
\* of scrape_multiple_sources took no time or MaxDuration seconds
NextManager ==
    \/ \E n \in ScraperNames : \E o \in Outcomes :
           /\ n \notin Scrapers => o = 0
           /\ CallScrapeSingleSource(n, o)
    \/ \E l \in NameLists : \E p \in BOOLEAN : \E o \in [1..Len(l) -> Outcomes] :
           \E d \in {0, MaxDuration} :
               /\ \A k \in 1..Len(l) : l[k] \notin Scrapers => o[k] = 0
               /\ CallScrapeMultipleSources(l, p, o, d)
    \/ CallResetStats
    \/ CallGetScrapingStats

SpecManager == InitManager /\ [][NextManager]_vars

\* C17: right after reset_stats, whatever was scraped and whatever failed
\* before, get_scraping_stats returns exactly the four keys total_jobs,
\* jobs_by_source, scraping_duration and failed_scrapers, with total_jobs 0,
\* jobs_by_source empty, scraping_duration 0 and failed_scrapers empty.
C17_ResetStatsClears ==
    last.op = "reset_stats" =>
        /\ DOMAIN get_scraping_stats(inst) =
               {"total_jobs", "jobs_by_source", "scraping_duration", "failed_scrapers"}
        /\ get_scraping_stats(inst).total_jobs = 0
        /\ DOMAIN get_scraping_stats(inst).jobs_by_source = {}
        /\ get_scraping_stats(inst).scraping_duration = 0
        /\ Len(get_scraping_stats(inst).failed_scrapers) = 0

\* reset_stats was called on a manager that had scraped jobs, taken time and
\* recorded a failed scraper
C17_Witness ==
    /\ last.op = "reset_stats"
    /\ last.inst.stats.total_jobs > 0
    /\ DOMAIN last.inst.stats.jobs_by_source /= {}
    /\ last.inst.stats.scraping_duration > 0
    /\ last.inst.stats.failed_scrapers /= <<>>

\* the salary text with '$' and ',' removed and every 'k' or 'K' made '000'
RECURSIVE Flattened(_)
Flattened(parts) == IF parts = <<>> THEN <<>> ELSE Head(parts) \o Flattened(Tail(parts))
Cleaned(t) ==
    Flattened([i \in 1..Len(t) |->
                  IF t[i] \in {"$", ","} THEN <<>>
                  ELSE IF t[i] \in {"k", "K"} THEN <<"0", "0", "0">>
                  ELSE <<t[i]>>])

RECURSIVE Pow10(_)
Pow10(n) == IF n = 0 THEN 1 ELSE 10 * Pow10(n - 1)
DigitOf(c) == CHOOSE d \in 0..9 : ToString(d) = c

\* the number written by the digits of c at positions a..b
RECURSIVE Written(_, _, _)
Written(c, a, b) ==
    IF a > b THEN 0 ELSE DigitOf(c[a]) * Pow10(b - a) + Written(c, a + 1, b)

\* the first run of digits of c, which holds a digit
FirstRun(c) ==
    Written(c,
            CHOOSE a \in 1..Len(c) : c[a] \in DigitChars /\ \A i \in 1..(a - 1) : c[i] \notin DigitChars,
            CHOOSE b \in 1..Len(c) :
                /\ \E a \in 1..b : /\ \A i \in a..b : c[i] \in DigitChars
                                   /\ \A i \in 1..(a - 1) : c[i] \notin DigitChars
                /\ (b = Len(c) \/ c[b + 1] \notin DigitChars))

\* the salary a text with a digit states
StatedSalary(t) == FirstRun(Cleaned(t))

\* the bounds that are set admit the value
WithinBounds(cfg, v) ==
    /\ cfg.min_salary /= 0 => v >= cfg.min_salary
    /\ cfg.max_salary /= 0 => v <= cfg.max_salary

\* C19: for a salary text with a digit the extracted salary is the first run
\* of digits after '$' and ',' are removed and 'k', 'K' replaced by '000'
\* ('$100,000-$120,000' gives 100000, '85k' gives 85000), and SalaryFilter
\* keeps the record iff that value is >= min_salary when a minimum is set and
\* <= max_salary when a maximum is set, the bounds included; '$80,000' is
\* dropped by min_salary = 90000.
C19_SalaryWithinBounds ==
    (Returned1 /\ last.inst.kind = "SalaryFilter") =>
        \A p \in 1..Len(last.in) :
            HasDigit(Get(InputRecord(p), "salary")) =>
                /\ _extract_salary_numbers(Get(InputRecord(p), "salary"))
                       = StatedSalary(Get(InputRecord(p), "salary"))
                /\ Kept(p) <=> WithinBounds(last.inst.cfg, StatedSalary(Get(InputRecord(p), "salary")))
                /\ Get(InputRecord(p), "salary") = <<"$","1","0","0",",","0","0","0","-","$","1","2","0",",","0","0","0">>
                       => _extract_salary_numbers(Get(InputRecord(p), "salary")) = 100000
                /\ Get(InputRecord(p), "salary") = <<"8","5","k">>
                       => _extract_salary_numbers(Get(InputRecord(p), "salary")) = 85000
                /\ (Get(InputRecord(p), "salary") = <<"$","8","0",",","0","0","0">> /\ last.inst.cfg.min_salary = 90000)
                       => ~Kept(p)

\* SalaryFilter(80000, 90000) kept '$80,000', which is the minimum, and
\* dropped '$100,000-$120,000'
C19_Witness ==
    /\ Returned1
    /\ last.inst.kind = "SalaryFilter"
    /\ last.inst.cfg.min_salary = 80000
    /\ last.inst.cfg.max_salary = 90000
    /\ Len(last.in) = 2
    /\ Get(InputRecord(1), "salary") = <<"$","8","0",",","0","0","0">>
    /\ Get(InputRecord(2), "salary") = <<"$","1","0","0",",","0","0","0","-","$","1","2","0",",","0","0","0">>
    /\ last.out = <<last.in[1]>>


\* the text holds 'remote'
Remote(t) == Contains(Lower(t), <<"r","e","m","o","t","e">>)

\* C20: JobTypeFilter keeps a record iff (remote_only is false, or its
\* location or job_type contains 'remote') and (full_time_only is false, or
\* its job_type contains 'full', or its title contains 'full-time', or its
\* job_type does not contain 'part'), all in lower case; so with
\* full_time_only a record without job_type, with an empty one or with
\* 'Contract' is kept.
C20_JobTypeKept ==
    (Returned1 /\ last.inst.kind = "JobTypeFilter") =>
        \A p \in 1..Len(last.in) :
            /\ Kept(p) <=>
                   /\ \/ ~last.inst.cfg.remote_only
                      \/ Remote(Get(InputRecord(p), "location"))
                      \/ Remote(Get(InputRecord(p), "job_type"))
                   /\ \/ ~last.inst.cfg.full_time_only
                      \/ Contains(Lower(Get(InputRecord(p), "job_type")), <<"f","u","l","l">>)
                      \/ Contains(Lower(Get(InputRecord(p), "title")), <<"f","u","l","l","-","t","i","m","e">>)
                      \/ ~Contains(Lower(Get(InputRecord(p), "job_type")), <<"p","a","r","t">>)
            /\ ( /\ last.inst.cfg.full_time_only
                 /\ ~last.inst.cfg.remote_only
                 /\ Get(InputRecord(p), "job_type") \in {<<>>, <<"C","o","n","t","r","a","c","t">>} ) => Kept(p)

\* JobTypeFilter(full_time_only=True) kept a 'Contract' record and dropped a
\* 'Part-time' one
C20_Witness ==
    /\ Returned1
    /\ last.inst.kind = "JobTypeFilter"
    /\ last.inst.cfg.full_time_only
    /\ Len(last.in) = 2
    /\ Get(InputRecord(1), "job_type") = <<"C","o","n","t","r","a","c","t">>
    /\ Get(InputRecord(2), "job_type") = <<"P","a","r","t","-","t","i","m","e">>
    /\ last.out = <<last.in[1]>>

\* the text holds one of the remote keywords, in any letter case
RemoteText(t) ==
    \E k \in 1..Len(remote_keywords) : Contains(Lower(t), remote_keywords[k])

\* the record at position p of the last call is remote by its location or job_type
RemoteRecord(p) ==
    \/ RemoteText(Get(InputRecord(p), "location"))
    \/ RemoteText(Get(InputRecord(p), "job_type"))

\* a LocationFilter with a preferred or an excluded location returned
Located ==
    /\ Returned1
    /\ last.inst.kind = "LocationFilter"
    /\ \/ last.inst.cfg.preferred_locations /= <<>>
       \/ last.inst.cfg.excluded_locations /= <<>>

\* C21: with allow_remote and a preferred or excluded location configured,
\* LocationFilter keeps every record whose location or job_type holds a
\* remote keyword, also when its location matches an excluded location.
C21_RemoteKept ==
    (Located /\ last.inst.cfg.allow_remote) =>
        \A p \in 1..Len(last.in) : RemoteRecord(p) => Kept(p)

\* both normalized locations are non-empty and equal, or in substring mode
\* one holds the other
Matches(cfg, location, configured) ==
    /\ _normalize_location(location) /= <<>>
    /\ _normalize_location(configured) /= <<>>
    /\ IF cfg.exact_match
         THEN _normalize_location(location) = _normalize_location(configured)
         ELSE \/ Contains(_normalize_location(location), _normalize_location(configured))
              \/ Contains(_normalize_location(configured), _normalize_location(location))

MatchesAny(cfg, location, list) ==
    \E i \in 1..Len(list) : Matches(cfg, location, list[i])

\* C22: a record that is not auto-passed as remote is dropped if its location
\* matches an excluded location, and otherwise kept iff no preferred location
\* is configured or its location matches one, where locations match only if
\* both normalized texts are non-empty; so a location that is 'N/A' or
\* normalizes to the empty text is never dropped by the excluded locations.
C22_ExcludedThenPreferred ==
    Located =>
        \A p \in 1..Len(last.in) :
            ~(RemoteRecord(p) /\ last.inst.cfg.allow_remote) =>
                ( Kept(p) <=>
                    /\ ~MatchesAny(last.inst.cfg, Get(InputRecord(p), "location"),
                                   last.inst.cfg.excluded_locations)
                    /\ \/ last.inst.cfg.preferred_locations = <<>>
                       \/ MatchesAny(last.inst.cfg, Get(InputRecord(p), "location"),
                                     last.inst.cfg.preferred_locations) )

\* normalized(title) + ' ' + normalized(company)
TitleAndCompany(job) ==
    _normalize_text(Get(job, "title")) \o <<" ">> \o _normalize_text(Get(job, "company"))

\* the words of a text: its maximal runs of characters that are not whitespace
WordsIn(t) ==
    { SubSeq(t, r[1], r[2]) :
        r \in { q \in (1..Len(t)) \X (1..Len(t)) :
                   /\ q[1] <= q[2]
                   /\ \A i \in q[1]..q[2] : ~IsSpace(t[i])
                   /\ (q[1] = 1 \/ IsSpace(t[q[1] - 1]))
                   /\ (q[2] = Len(t) \/ IsSpace(t[q[2] + 1])) } }

\* the fraction is |A \cap B| / |A \cup B|, and 1 when both sets are empty
IsJaccard(sim, A, B) ==
    /\ sim[2] > 0
    /\ 0 <= sim[1]
    /\ sim[1] <= sim[2]
    /\ (A = {} /\ B = {}) => sim[1] = sim[2]
    /\ (A = {}) /= (B = {}) => sim[1] = 0
    /\ (A \cup B /= {}) => sim[1] * Cardinality(A \cup B) = Cardinality(A \cap B) * sim[2]

\* C23: _calculate_similarity(a, b) is |A \cap B| / |A \cup B| for the word
\* sets A and B of normalized(title) + ' ' + normalized(company) of the two
\* records, 1.0 when both sets are empty, 0.0 when exactly one is, and always
\* between 0 and 1; for all records a caller holds for a DuplicateRemover.
C23_SimilarityIsJaccard ==
    (inst.kind = "DuplicateRemover" /\ calls = 0) =>
        \A a, b \in 1..Len(heap) :
            IsJaccard(_calculate_similarity(heap[a], heap[b]),
                      WordsIn(TitleAndCompany(heap[a])), WordsIn(TitleAndCompany(heap[b])))

\* the caller holds a record without words, and two records that share some
\* of their words and not all
C23_Witness ==
    /\ inst.kind = "DuplicateRemover"
    /\ calls = 0
    /\ \E a, b, c \in 1..Len(heap) :
           /\ WordsIn(TitleAndCompany(heap[c])) = {}
           /\ _calculate_similarity(heap[a], heap[c]) = <<0, 1>>
           /\ _calculate_similarity(heap[c], heap[c]) = <<1, 1>>
           /\ _calculate_similarity(heap[a], heap[b])[1] > 0
           /\ _calculate_similarity(heap[a], heap[b])[1]
                  < _calculate_similarity(heap[a], heap[b])[2]

\* t holds the word w as a whole word
HoldsWord(t, w) ==
    \E a \in 1..Len(t) :
        /\ a + Len(w) - 1 <= Len(t)
        /\ SubSeq(t, a, a + Len(w) - 1) = w
        /\ (a = 1 \/ ~IsWordChar(t[a - 1]))
        /\ (a + Len(w) - 1 = Len(t) \/ ~IsWordChar(t[a + Len(w)]))

\* lowercase, no punctuation, no corporate suffix as a whole word, no run of
\* two whitespace characters, no whitespace at either end
Canonical(t) ==
    /\ \A i \in 1..Len(t) : t[i] \notin UpperSet /\ (IsWordChar(t[i]) \/ IsSpace(t[i]))
    /\ \A k \in 1..Len(company_suffixes) : ~HoldsWord(t, company_suffixes[k])
    /\ \A i \in 1..(Len(t) - 1) : ~(IsSpace(t[i]) /\ IsSpace(t[i + 1]))
    /\ t /= <<>> => ~IsSpace(t[1]) /\ ~IsSpace(t[Len(t)])

TextFields == {"title", "company", "location"}

\* C24: _normalize_text returns a canonical text for every text of a record
\* (lowercase, no punctuation, no whole-word corporate suffix, no run of
\* whitespace, none at the ends), normalizing a normalized text returns it
\* unchanged, and 'Google Inc' and 'Google' normalize to the same text.
C24_NormalizedIsCanonical ==
    (inst.kind = "DuplicateRemover" /\ calls = 0) =>
        /\ \A a \in 1..Len(heap) : \A f \in TextFields :
               /\ Canonical(_normalize_text(Get(heap[a], f)))
               /\ _normalize_text(_normalize_text(Get(heap[a], f)))
                      = _normalize_text(Get(heap[a], f))
        /\ _normalize_text(<<"G","o","o","g","l","e"," ","I","n","c">>) = _normalize_text(<<"G","o","o","g","l","e">>)

\* C25: in the list DuplicateRemover.filter returns no two records have the
\* same signature and no two have a similarity >= threshold, for every
\* threshold; and the filter applied to that list returns it unchanged.
C25_OutputPairwiseDistinct ==
    Deduplicated =>
        /\ \A i, j \in 1..Len(last.out) :
               i < j =>
                   /\ _create_job_signature(heap[last.out[i]])
                          /= _create_job_signature(heap[last.out[j]])
                   /\ ~AtLeast(_calculate_similarity(heap[last.out[i]], heap[last.out[j]]),
                               last.inst.cfg.similarity_threshold)
        /\ Idempotent(Reapplied)

\* of three records the third was dropped for its similarity to the first,
\* not to the second, and two records were returned
C25_Witness ==
    /\ Deduplicated
    /\ Len(last.in) = 3
    /\ last.out = <<last.in[1], last.in[2]>>
    /\ AtLeast(_calculate_similarity(InputRecord(3), InputRecord(1)),
               last.inst.cfg.similarity_threshold)
    /\ ~AtLeast(_calculate_similarity(InputRecord(3), InputRecord(2)),
                last.inst.cfg.similarity_threshold)
    /\ _create_job_signature(InputRecord(3)) /= _create_job_signature(InputRecord(1))

\* a deduplicator that has the pairwise scan against the kept records only:
\* the records of jobs from position i on, added to those kept so far
RECURSIVE ScanOnly(_, _, _, _, _)
ScanOnly(threshold, h, list, i, kept) ==
    IF i > Len(list) THEN kept
    ELSE ScanOnly(threshold, h, list, i + 1,
                  IF \E k \in 1..Len(kept) :
                         AtLeast(_calculate_similarity(h[list[i]], h[kept[k]]), threshold)
                  THEN kept ELSE Append(kept, list[i]))

\* the values a location is changed to; the last removes the field
LocationValues == {<<"N","Y">>, <<"R","e","m","o","t","e",","," ","U","S">>, <<>>, KeyError}

\* the records with the location of the record at p changed to l
Relocated(h, p, l) ==
    [h EXCEPT ![p] = IF l = KeyError
                     THEN [f \in DOMAIN h[p] \ {"location"} |-> h[p][f]]
                     ELSE [f \in DOMAIN h[p] \cup {"location"} |->
                               IF f = "location" THEN l ELSE h[p][f]]]

\* C26: for a threshold <= 1.0 the list DuplicateRemover.filter returns is the
\* list of a deduplicator that has only the pairwise similarity scan, and it
\* holds the same input positions when the location of a record is changed.
C26_FastPathIsOptimisation ==
    (Deduplicated /\ last.inst.cfg.similarity_threshold[1]
                         <= last.inst.cfg.similarity_threshold[2]) =>
        /\ last.out = ScanOnly(last.inst.cfg.similarity_threshold, last.heap, last.in, 1, <<>>)
        /\ \A p \in 1..Len(last.heap) : \A l \in LocationValues :
               StageFilter(last.inst, Relocated(last.heap, p, l), last.in, last.ticks).out
                   = last.out

\* two records with the same signature were given, the second was dropped,
\* and a third record was kept
C26_Witness ==
    /\ Deduplicated
    /\ last.inst.cfg.similarity_threshold = <<1, 1>>
    /\ Len(last.in) = 3
    /\ last.in[1] /= last.in[2]
    /\ _create_job_signature(InputRecord(1)) = _create_job_signature(InputRecord(2))
    /\ last.out = <<last.in[1], last.in[3]>>

(***************************************************************************)
(* A pipeline of two predicate stages, given the records of the sample     *)
(* kind, the clock standing still during a call.                           *)
(***************************************************************************)
PredicateStages ==
    { NewExperienceFilter(<<<<"s","e","n","i","o","r">>>>),
      NewExperienceFilter(<<<<"e","n","t","r","y">>, <<"m","i","d">>>>),
      NewCompanyFilter(<<>>, <<<<"B","a","d">>>>),
      NewKeywordFilter(<<<<"p","y">>>>, <<>>),
      NewSalaryFilter(85000, 0),
      NewJobTypeFilter(FALSE, TRUE),
      NewLocationFilter(<<<<"N","Y">>>>, <<>>, FALSE, FALSE),
      NewDateFilter(48) }

\* the pipeline after its two add_filter calls
InitOrder ==
    /\ heap = <<>>
    /\ jobs = <<>>
    /\ \E A, B \in PredicateStages : inst = [NewFilterPipeline EXCEPT !.filters = <<A, B>>]
    /\ calls = 0
    /\ last = [in |-> <<>>, heap |-> <<>>, out |-> <<>>, raised |-> FALSE,
               examined |-> 0, ticks |-> <<>>, inst |-> inst]

NextOrder ==
    \/ \E r \in MainRecords : AddJob(r)
    \/ \E i \in 1..Len(heap) : AddAlias(i)
    \/ CallApplyFilters
    \/ UseOutput
    \/ UseEmpty

SpecOrder == InitOrder /\ [][NextOrder]_vars

\* the last run with its two stages in the other order
Swapped ==
    apply_filters(<<last.inst.filters[2], last.inst.filters[1]>>,
                  last.heap, last.in, last.ticks)

\* C27: two predicate stages applied in either order return the same list,
\* with the same records in it, also when one of them is an ExperienceFilter
\* that writes experience_level into the records it examines.
C27_PredicateStagesCommute ==
    (Applied /\ Len(last.inst.filters) = 2) =>
        /\ ~Swapped.raised
        /\ Swapped.out = last.out
        /\ \A k \in 1..Len(last.out) : Swapped.heap[last.out[k]] = heap[last.out[k]]

\* an ExperienceFilter came after a stage of another class; the run dropped
\* one of two records and wrote experience_level into the one it returned
C27_Witness ==
    /\ Applied
    /\ Len(last.inst.filters) = 2
    /\ last.inst.filters[1].kind /= "ExperienceFilter"
    /\ last.inst.filters[2].kind = "ExperienceFilter"
    /\ Len(last.in) = 2
    /\ Len(last.out) = 1
    /\ "experience_level" \notin DOMAIN last.heap[last.out[1]]
    /\ "experience_level" \in DOMAIN heap[last.out[1]]

\* a MainJobFilter returned
MainReturned == Returned1 /\ last.inst.kind = "MainJobFilter"

\* DuplicateRemover(t).filter on the list MainJobFilter.filter returned
MainThenDuplicates(t) == Filter(NewDuplicateRemover(t), heap, last.out, last.ticks)

\* DuplicateRemover(t).filter on the input of the last call
DuplicatesFirst(t) == Filter(NewDuplicateRemover(t), last.heap, last.in, last.ticks)

\* MainJobFilter.filter on the list DuplicateRemover(t).filter returned
DuplicatesThenMain(t) ==
    Filter(last.inst, DuplicatesFirst(t).heap, DuplicatesFirst(t).out, last.ticks)

\* C28: for every input and configuration, DuplicateRemover.filter followed
\* by MainJobFilter.filter returns the same records as MainJobFilter.filter
\* followed by DuplicateRemover.filter.
C28_DeduplicationPlacedAnywhere ==
    MainReturned =>
        \A t \in Thresholds : DuplicatesThenMain(t).out = MainThenDuplicates(t).out

\* the input records at p and q are duplicates for the threshold t
DuplicatePair(t, p, q) ==
    \/ _create_job_signature(InputRecord(p)) = _create_job_signature(InputRecord(q))
    \/ AtLeast(_calculate_similarity(InputRecord(p), InputRecord(q)), t)

\* MainJobFilter kept both or neither of any two input records that are
\* duplicates of each other
DuplicatesFareAlike(t) ==
    \A p, q \in 1..Len(last.in) :
        (p < q /\ DuplicatePair(t, p, q)) => (Kept(p) <=> Kept(q))

\* C28 (amended): the two orders return the same records whenever
\* MainJobFilter keeps both or neither of any two input records that are
\* duplicates of each other.
C28_DeduplicationPlacedAlike ==
    MainReturned =>
        \A t \in Thresholds :
            DuplicatesFareAlike(t) => DuplicatesThenMain(t).out = MainThenDuplicates(t).out

\* a configured MainJobFilter kept two different records that are
\* duplicates, and either order returns the first of them alone
C28_Witness ==
    /\ MainReturned
    /\ last.inst.cfg /= EmptyRecord
    /\ Len(last.in) = 2
    /\ last.in[1] /= last.in[2]
    /\ last.out = last.in
    /\ DuplicatePair(DefaultThreshold, 1, 2)
    /\ DuplicatesThenMain(DefaultThreshold).out = <<last.in[1]>>
    /\ MainThenDuplicates(DefaultThreshold).out = <<last.in[1]>>

\* scrape_multiple_sources has just returned
Scraped2 == last.op = "scrape_multiple_sources"

\* the scraper at position k of the names of the last call is known and did
\* not fail
Succeeded(k) ==
    last.args.scraper_names[k] \in Scrapers /\ last.args.outcome[k] /= Failed

\* the scraper at position k of the names of the last call failed
FailedNow(k) ==
    last.args.scraper_names[k] \in Scrapers /\ last.args.outcome[k] = Failed

\* stats.jobs_by_source[n], an absent entry counting 0
JobsBySource(n) ==
    IF n \in DOMAIN inst.stats.jobs_by_source THEN inst.stats.jobs_by_source[n] ELSE 0

RECURSIVE SumBySource(_)
SumBySource(k) ==
    IF k = 0 THEN 0 ELSE JobsBySource(last.args.scraper_names[k]) + SumBySource(k - 1)

\* C29: when scrape_multiple_sources returns, after any calls before it,
\* stats.total_jobs is the length of the returned list and the sum of
\* stats.jobs_by_source over the names of this call, a scraper that failed or
\* is unknown counting 0, and failed_scrapers lists only names that failed
\* in this call.
C29_StatsDescribeThisCall ==
    Scraped2 =>
        /\ inst.stats.total_jobs = Len(last.out)
        /\ inst.stats.total_jobs = SumBySource(Len(last.args.scraper_names))
        /\ \A k \in 1..Len(last.args.scraper_names) :
               ~Succeeded(k) => JobsBySource(last.args.scraper_names[k]) = 0
        /\ \A i \in 1..Len(inst.stats.failed_scrapers) :
               \E k \in 1..Len(last.args.scraper_names) :
                   FailedNow(k) /\ last.args.scraper_names[k] = inst.stats.failed_scrapers[i]

\* the records of a list of jobs
Records(h, list) == [i \in 1..Len(list) |-> h[list[i]]]

\* the jobs the scraper at position k of the last call returned: a scraper
\* returning n jobs returns the records 1..n of its source
JobsOf(k) ==
    IF Succeeded(k) THEN [n \in 1..last.args.outcome[k] |->
                             [source |-> last.args.scraper_names[k], title |-> n]]
    ELSE <<>>

\* the jobs of the sources taken in the order o
RECURSIVE JobsInOrder(_, _)
JobsInOrder(o, i) == IF i > Len(o) THEN <<>> ELSE JobsOf(o[i]) \o JobsInOrder(o, i + 1)

\* what sequential mode returns for the last call
Sequential ==
    scrape_multiple_sources(last.inst, <<>>, last.args.scraper_names,
                            [k \in 1..Len(last.args.scraper_names) |-> k],
                            [k \in 1..Len(last.args.scraper_names) |-> k],
                            last.args.outcome, 0)

\* the number of times the name n is in the list
Count(list, n) == Cardinality({i \in 1..Len(list) : list[i] = n})

====
